---- MODULE Spec2Model ----
(***************************************************************************)
(* Model of gmail-cleaner: the response parser and classifier              *)
(* (classifier.py), the pending store (pending.py), the action applier     *)
(* (gmail.py) and the menus that drive them (cli.py).                      *)
(*                                                                         *)
(* Python dicts are records; d.get(k, default) is Get(d, k, default).      *)
(* A Python call that may raise returns a record with a field "raised".    *)
(***************************************************************************)
EXTENDS Integers, Sequences, FiniteSets, TLC

VARIABLES
    response,   \* parser: the raw model text, a sequence of lexemes
    parseOut,   \* parser: what parse_classification_response did with it
    emails,     \* classify_emails: the emails given
    results,    \* classify_emails: the results so far
    calls,      \* what the inference backend did on each call, in call order
    progress,   \* the progress_callback calls, in call order
    progress_callback, \* classify_emails: whether a callback was given
    cpc,        \* classify_emails: "idle", "running", "returned" or "raised"
    pendingFile,\* the content of pending.json
    clock,      \* the time, as datetime.now() reads it
    loaded,     \* what the last load_pending call did
    lastSaved,  \* the arguments of the last save_pending call (in the menus:
                \* of the call that wrote the file, if the file exists)
    saves,      \* the number of save_pending calls since the file was last absent
                \* (counted where the store is run on its own)
    lastOp,     \* the parser or store operation that ran last
    prevOp,     \* the operation that ran before it
    lastRaised, \* whether the operation that ran last raised
    pc,         \* cli.py: where the program is: "menu", "classify", "review",
                \* "final", "applied", "exited" or "crashed" ("off": the menus
                \* are not run)
    accounts,   \* config.accounts: the nicknames of the configured accounts
    selected,   \* run_cleaner: account_name, the account selected
    lastApply,  \* what the last apply_actions or apply_pending call did
    attempted,  \* whether apply_pending was called on the snapshot in the file
    summaries,  \* what the last generate_summaries call did
    lastEdit,   \* drill_down_menu: the last edit of the review under way
    configFile, \* the content of config.json
    config,     \* the Config object in memory
    lastConfigOp \* what the last call about the configuration was and did

parseVars == <<response, parseOut>>
classifyVars == <<emails, results, calls, progress, progress_callback, cpc>>
storeVars == <<pendingFile, clock, loaded, lastSaved, saves>>
opVars == <<lastOp, prevOp, lastRaised>>
cliVars == <<pc, accounts, selected, lastApply, attempted, summaries>>
configVars == <<configFile, config, lastConfigOp>>
vars == <<response, parseOut, emails, results, calls, progress, progress_callback, cpc,
          pendingFile, clock, loaded, lastSaved, saves, lastOp, prevOp, lastRaised,
          pc, accounts, selected, lastApply, attempted, summaries, lastEdit,
          configFile, config, lastConfigOp>>

(***************************************************************************)
(* Bounds of the model.                                                    *)
(***************************************************************************)
MaxRespLen == 3     \* every text of at most this many lexemes is tried
MaxPad == 1         \* lexemes of prose put before and after a JSON text
MaxEmails == 2      \* emails in one run
MaxResults == 2     \* results given to one save_pending call
MaxSaves == 2       \* save_pending calls in one behaviour
MaxApply == 2       \* entries given to one apply_pending or apply_actions call

(***************************************************************************)
(* types.py: the closed enumeration of categories.                         *)
(***************************************************************************)
Categories == {"NEEDS_REPLY", "NEEDS_ACTION", "FYI", "ARCHIVE", "IGNORE"}

Get(d, k, default) == IF k \in DOMAIN d THEN d[k] ELSE default

(***************************************************************************)
(* Text.  A text is a sequence of lexemes; a lexeme is one character       *)
(* ("{", "}", "[", "]", ":", ",", a whitespace character) or one run of    *)
(* characters that the JSON scanner reads as a unit: a string literal (its *)
(* content holds no brace), a number, null, or a word of prose.            *)
(***************************************************************************)
Tok(t, v) == [t |-> t, v |-> v]
LBRACE == Tok("p", "{")
RBRACE == Tok("p", "}")
LBRACK == Tok("p", "[")
RBRACK == Tok("p", "]")
COLON == Tok("p", ":")
COMMA == Tok("p", ",")
WS == Tok("ws", " ")
WORD == Tok("word", "Sure")
NUM == Tok("num", "42")
NULL == Tok("null", "null")
Str(s) == Tok("str", s)

(***************************************************************************)
(* Decoded JSON values, and Python's str() of them.                        *)
(***************************************************************************)
JStr(s) == [k |-> "str", s |-> s]
JNum(s) == [k |-> "num", s |-> s]
JNull == [k |-> "null"]
JList(items) == [k |-> "list", items |-> items]
JObj(fields) == [k |-> "obj", fields |-> fields]
JBool(b) == [k |-> "bool", b |-> b]

PyStr(v) ==
    CASE v.k = "str" -> v.s
      [] v.k = "num" -> v.s
      [] v.k = "null" -> "None"
      [] v.k = "list" -> "[...]"
      [] v.k = "obj" -> "{...}"
      [] v.k = "bool" -> IF v.b THEN "True" ELSE "False"

(***************************************************************************)
(* json.loads on a text: whitespace is allowed around every lexeme, a      *)
(* trailing comma is an error, and so is anything after the value.         *)
(***************************************************************************)
RECURSIVE SkipWs(_, _)
SkipWs(s, i) ==
    IF i <= Len(s) /\ s[i].t = "ws" THEN SkipWs(s, i + 1) ELSE i

PFail == [ok |-> FALSE, next |-> 0]
POk(v, n) == [ok |-> TRUE, val |-> v, next |-> n]

RECURSIVE ParseValue(_, _)
RECURSIVE ParseElems(_, _, _)
RECURSIVE ParseMembers(_, _, _)

ParseValue(s, i) ==
    LET j == SkipWs(s, i) IN
    IF j > Len(s) THEN PFail
    ELSE CASE s[j].t = "str" -> POk(JStr(s[j].v), j + 1)
           [] s[j].t = "num" -> POk(JNum(s[j].v), j + 1)
           [] s[j].t = "null" -> POk(JNull, j + 1)
           [] s[j] = LBRACK ->
                LET k == SkipWs(s, j + 1) IN
                IF k <= Len(s) /\ s[k] = RBRACK
                THEN POk(JList(<<>>), k + 1)
                ELSE ParseElems(s, j + 1, <<>>)
           [] s[j] = LBRACE ->
                LET k == SkipWs(s, j + 1) IN
                IF k <= Len(s) /\ s[k] = RBRACE
                THEN POk(JObj(<<>>), k + 1)
                ELSE ParseMembers(s, j + 1, <<>>)
           [] OTHER -> PFail

ParseElems(s, i, acc) ==
    LET r == ParseValue(s, i) IN
    IF ~r.ok THEN PFail
    ELSE LET k == SkipWs(s, r.next) IN
         IF k > Len(s) THEN PFail
         ELSE IF s[k] = COMMA THEN ParseElems(s, k + 1, Append(acc, r.val))
         ELSE IF s[k] = RBRACK THEN POk(JList(Append(acc, r.val)), k + 1)
         ELSE PFail

\* a later member of the same name replaces the earlier one, as in a dict
ParseMembers(s, i, acc) ==
    LET j == SkipWs(s, i) IN
    IF j > Len(s) \/ s[j].t # "str" THEN PFail
    ELSE LET c == SkipWs(s, j + 1) IN
         IF c > Len(s) \/ s[c] # COLON THEN PFail
         ELSE LET r == ParseValue(s, c + 1) IN
              IF ~r.ok THEN PFail
              ELSE LET k == SkipWs(s, r.next)
                       fields == (s[j].v :> r.val) @@ acc
                   IN
                   IF k > Len(s) THEN PFail
                   ELSE IF s[k] = COMMA THEN ParseMembers(s, k + 1, fields)
                   ELSE IF s[k] = RBRACE THEN POk(JObj(fields), k + 1)
                   ELSE PFail

JsonLoads(s) ==
    LET r == ParseValue(s, 1) IN
    IF ~r.ok THEN [err |-> TRUE, msg |-> "Expecting value"]
    ELSE IF SkipWs(s, r.next) <= Len(s) THEN [err |-> TRUE, msg |-> "Extra data"]
    ELSE [err |-> FALSE, val |-> r.val]

(***************************************************************************)
(* str.strip, str.index, str.rindex and slicing, on texts.                 *)
(***************************************************************************)
RECURSIVE LStrip(_)
LStrip(s) == IF s # <<>> /\ Head(s).t = "ws" THEN LStrip(Tail(s)) ELSE s

RECURSIVE RStrip(_)
RStrip(s) ==
    IF s # <<>> /\ s[Len(s)].t = "ws" THEN RStrip(SubSeq(s, 1, Len(s) - 1)) ELSE s

Strip(s) == RStrip(LStrip(s))

Contains(s, c) == \E i \in 1..Len(s) : s[i] = c

\* 0-based positions, as in Python; only used when Contains(s, c)
Index(s, c) == (CHOOSE i \in 1..Len(s) : s[i] = c /\ \A j \in 1..(i - 1) : s[j] # c) - 1
RIndex(s, c) == (CHOOSE i \in 1..Len(s) : s[i] = c /\ \A j \in (i + 1)..Len(s) : s[j] # c) - 1

\* s[start:end] for 0 <= start, end <= len(s)
Slice(s, start, end) == IF end <= start THEN <<>> ELSE SubSeq(s, start + 1, end)

(***************************************************************************)
(* classifier.py: parse_classification_response.                           *)
(***************************************************************************)
Reason(prefix, text) == [prefix |-> prefix, text |-> text]
Returned(category, reason) ==
    [raised |-> FALSE, category |-> category, reason |-> reason]
Raised(exc, msg) == [raised |-> TRUE, exc |-> exc, msg |-> msg]

FailedToParse(msg) == Returned("FYI", Reason("Failed to parse response: ", msg))

\* Category(category_str): a ValueError for every value that is not one of the
\* five strings
IsCategory(v) == v.k = "str" /\ v.s \in Categories

\* a reading that lets an unknown category pass as FYI without saying so
ReadClassification_SilentDefault(data) ==
    IF data.k # "obj"
    THEN Raised("AttributeError", "object has no attribute 'get'")
    ELSE LET category_str == Get(data.fields, "category", JStr("FYI"))
             reason == Get(data.fields, "reason", JStr(""))
         IN
         IF ~IsCategory(category_str)
         THEN Returned("FYI", Reason("", PyStr(reason)))
         ELSE Returned(category_str.s, Reason("", PyStr(reason)))

\* lines 67-77: the decoded value is used as a dict
ReadClassification(data) ==
    IF data.k # "obj"
    THEN Raised("AttributeError", "object has no attribute 'get'")
    ELSE LET category_str == Get(data.fields, "category", JStr("FYI"))
             reason == Get(data.fields, "reason", JStr(""))
         IN
         IF ~IsCategory(category_str)
         THEN Returned("FYI", Reason("Unknown category: ", PyStr(category_str)))
         ELSE Returned(category_str.s, Reason("", PyStr(reason)))

\* an extraction that decodes the whole reply, prose included
ExtractJson_NoSlice(stripped) == [err |-> FALSE, text |-> stripped]

\* lines 62-65
ExtractJson(stripped) ==
    IF Contains(stripped, LBRACE)
    THEN IF ~Contains(stripped, RBRACE)
         THEN [err |-> TRUE, msg |-> "substring not found"]
         ELSE [err |-> FALSE,
               text |-> Slice(stripped, Index(stripped, LBRACE), RIndex(stripped, RBRACE) + 1)]
    ELSE [err |-> FALSE, text |-> stripped]

\* a parser whose handler does not cover the error of rindex
parse_classification_response_NarrowExcept(resp) ==
    LET x == ExtractJson(Strip(resp)) IN
    IF x.err THEN Raised("ValueError", x.msg)
    ELSE LET data == JsonLoads(x.text) IN
         IF data.err THEN FailedToParse(data.msg)
         ELSE ReadClassification(data.val)

\* lines 55-79
parse_classification_response(resp) ==
    LET x == ExtractJson(Strip(resp)) IN
    IF x.err THEN FailedToParse(x.msg)
    ELSE LET data == JsonLoads(x.text) IN
         IF data.err THEN FailedToParse(data.msg)
         ELSE ReadClassification(data.val)

(***************************************************************************)
(* The texts the parser is tried on: every text of at most MaxRespLen      *)
(* lexemes, and every JSON text of Cores with up to MaxPad lexemes of      *)
(* prose on each side.                                                     *)
(***************************************************************************)
Alphabet ==
    {LBRACE, RBRACE, LBRACK, RBRACK, COLON, COMMA, WS, WORD, NUM, NULL,
     Str("category"), Str("NEEDS_REPLY")}

SeqsUpTo(S, n) == UNION {[1..m -> S] : m \in 0..n}

Member(key, val) == <<Str(key), COLON, WS, val>>
Obj1(m1) == <<LBRACE>> \o m1 \o <<RBRACE>>
Obj2(m1, m2) == <<LBRACE>> \o m1 \o <<COMMA, WS>> \o m2 \o <<RBRACE>>

CategoryValues ==
    {Str(c) : c \in Categories} \cup {Str("UNKNOWN"), Str("needs_reply"), NUM, NULL}
ReasonValues == {Str("Requires response"), Str(""), NUM}

Cores ==
    {Obj2(Member("category", c), Member("reason", r)) :
        c \in CategoryValues, r \in ReasonValues}
    \cup {Obj1(Member("category", c)) : c \in CategoryValues}
    \cup {Obj1(Member("reason", r)) : r \in ReasonValues}
    \cup {Obj2(Member("category", Str("FYI")), Member("category", Str("ARCHIVE")))}
    \cup {<<LBRACE, Str("category"), COLON, Str("FYI"), COMMA, RBRACE>>,
          <<LBRACE, Str("category"), COLON, LBRACK, Str("FYI"), RBRACK, RBRACE>>,
          <<LBRACE, Str("category"), COLON, LBRACE, RBRACE, RBRACE>>,
          <<LBRACK, NUM, COMMA, NUM, RBRACK>>,
          <<LBRACK, LBRACK, RBRACK, RBRACK>>,
          <<LBRACK, NUM, COMMA, RBRACK>>,
          <<Str("category"), COLON, Str("FYI")>>}

Pads == SeqsUpTo({WS, WORD, LBRACE, RBRACE}, MaxPad)

Responses ==
    SeqsUpTo(Alphabet, MaxRespLen)
    \cup {pre \o core \o suf : pre \in Pads, core \in Cores, suf \in Pads}

(***************************************************************************)
(* The parser applied to one text.                                         *)
(***************************************************************************)
NoOut == [raised |-> FALSE, category |-> "none", reason |-> Reason("", "")]

ParseIdle ==
    /\ response = <<>>
    /\ parseOut = NoOut

ClassifyIdle ==
    /\ emails = <<>>
    /\ results = <<>>
    /\ calls = <<>>
    /\ progress = <<>>
    /\ progress_callback = FALSE
    /\ cpc = "idle"

NoFile == [kind |-> "absent"]
NotLoaded == [raised |-> FALSE, none |-> TRUE, called |-> FALSE]
NothingSaved == [called |-> FALSE]

StoreIdle ==
    /\ pendingFile = NoFile
    /\ clock = 0
    /\ loaded = NotLoaded
    /\ lastSaved = NothingSaved
    /\ saves = 0

NoApply == [path |-> "none"]
NoSummary == [called |-> FALSE]
NoConfig == [loaded |-> FALSE]
NoConfigOp == [op |-> "none"]

NoEdit == [made |-> FALSE]

CliIdle ==
    /\ pc = "off"
    /\ lastEdit = NoEdit
    /\ accounts = {}
    /\ selected = ""
    /\ lastApply = NoApply
    /\ attempted = FALSE
    /\ summaries = NoSummary

ConfigIdle ==
    /\ configFile = NoFile
    /\ config = NoConfig
    /\ lastConfigOp = NoConfigOp

OpIdle ==
    /\ lastOp = "start"
    /\ prevOp = "start"
    /\ lastRaised = FALSE

Did(op, raised) ==
    /\ lastOp' = op
    /\ prevOp' = lastOp
    /\ lastRaised' = raised

InitParse ==
    /\ response \in Responses
    /\ parseOut = NoOut
    /\ ClassifyIdle
    /\ StoreIdle
    /\ OpIdle
    /\ CliIdle
    /\ ConfigIdle

DoParse ==
    /\ parseOut = NoOut
    /\ parseOut' = parse_classification_response(response)
    /\ Did("parse_classification_response", parseOut'.raised)
    /\ UNCHANGED response
    /\ UNCHANGED <<classifyVars, storeVars, cliVars, configVars, lastEdit>>

NextParse == DoParse

SpecParse == InitParse /\ [][NextParse]_vars

\* C1: parse_classification_response never raises: for every text it returns
\* a pair whose category is one of the five Category values.
C1_ParseNeverRaises ==
    lastOp = "parse_classification_response" =>
        (~parseOut.raised /\ parseOut.category \in Categories)

(***************************************************************************)
(* types.py: EmailData.  Two emails of the pool share an id, so that a     *)
(* lookup by id can be told from a lookup by position.                     *)
(***************************************************************************)
EmailData(id, sender, subject) ==
    [id |-> id, thread_id |-> "t-" , sender |-> sender, subject |-> subject,
     snippet |-> "preview", date |-> "2026-02-03"]

Mail1 == EmailData("m1", "john@example.com", "Meeting Thursday?")
Mail2 == EmailData("m2", "newsletter@co.com", "Weekly Update")
Mail1b == EmailData("m1", "boss@example.com", "Re: Meeting Thursday?")

EmailPool == {Mail1, Mail2, Mail1b}

(***************************************************************************)
(* The inference backend: ollama.chat raises, or returns a reply.  A reply *)
(* is any Python value: a dict (with or without "message"), or not a dict. *)
(***************************************************************************)
PyDict(d) == [isdict |-> TRUE, isstr |-> FALSE, d |-> d]
PyText(s) == [isdict |-> FALSE, isstr |-> TRUE, s |-> s]
PyNone == [isdict |-> FALSE, isstr |-> FALSE]

ChatRaises(msg) == [raises |-> TRUE, msg |-> msg]
ChatReturns(reply) == [raises |-> FALSE, reply |-> reply]
ChatSays(text) == ChatReturns(PyDict([message |-> PyDict([content |-> PyText(text)])]))

BackendTexts ==
    {Obj2(Member("category", Str("NEEDS_REPLY")), Member("reason", Str("Requires response"))),
     <<WORD, WS>> \o Obj1(Member("category", Str("ARCHIVE"))) \o <<WS, WORD>>,
     Obj1(Member("category", Str("UNKNOWN"))),
     <<WORD, WS, WORD>>,
     <<LBRACE, Str("category")>>,
     <<NUM>>,
     <<LBRACK, NUM, COMMA, NUM, RBRACK>>,
     <<NULL>>}

BackendOutcomes ==
    {ChatRaises("Connection error")}
    \cup {ChatSays(t) : t \in BackendTexts}
    \cup {ChatReturns(PyDict(<<>>)),
          ChatReturns(PyDict([message |-> PyDict(<<>>)])),
          ChatReturns(PyDict([message |-> PyDict([content |-> PyNone])])),
          ChatReturns(PyDict([message |-> PyNone])),
          ChatReturns(PyNone)}

(***************************************************************************)
(* classifier.py: classify_single_email.                                   *)
(***************************************************************************)
\* line 91: response.get("message", {}).get("content", "")
ReadContent(reply) ==
    IF ~reply.isdict THEN Raised("AttributeError", "object has no attribute 'get'")
    ELSE LET message == Get(reply.d, "message", PyDict(<<>>)) IN
         IF ~message.isdict THEN Raised("AttributeError", "object has no attribute 'get'")
         ELSE [raised |-> FALSE, content |-> Get(message.d, "content", PyText(<<>>))]

\* lines 87-92: the body of the try block, up to the parsed pair
TryClassify(outcome) ==
    IF outcome.raises THEN Raised("Exception", outcome.msg)
    ELSE LET c == ReadContent(outcome.reply) IN
         IF c.raised THEN c
         ELSE IF ~c.content.isstr
              THEN Raised("AttributeError", "object has no attribute 'strip'")
              ELSE parse_classification_response(c.content.s)

ResultDict(email_id, category, reason) ==
    [email_id |-> email_id, category |-> category, reason |-> reason, skip |-> FALSE]

\* a handler that catches the backend's own error only
classify_single_email_NarrowExcept(email, outcome) ==
    LET t == TryClassify(outcome) IN
    IF outcome.raises
    THEN [raised |-> FALSE,
          result |-> ResultDict(email.id, "FYI", Reason("Classification failed: ", t.msg))]
    ELSE IF t.raised THEN t
    ELSE [raised |-> FALSE, result |-> ResultDict(email.id, t.category, t.reason)]

\* "except Exception" catches whatever the try block raised
classify_single_email(email, outcome) ==
    LET t == TryClassify(outcome) IN
    IF t.raised
    THEN [raised |-> FALSE,
          result |-> ResultDict(email.id, "FYI", Reason("Classification failed: ", t.msg))]
    ELSE [raised |-> FALSE, result |-> ResultDict(email.id, t.category, t.reason)]

(***************************************************************************)
(* classifier.py: classify_emails, one iteration of its loop per step:     *)
(* the inference call, the append, the progress callback.                  *)
(***************************************************************************)
\* line 120: the inference call made for emails[i], i counted from 0, and what
\* the backend did; done is the number of results there were before it
Call(i, email, done, outcome) ==
    [index |-> i, email_id |-> email.id, done |-> done] @@ outcome

\* line 124: progress_callback(i + 1, total), made when there were produced
\* results
Progress(current, total, produced) ==
    [current |-> current, total |-> total, produced |-> produced]

\* a loop that puts each new result in front of the earlier ones
ClassifyStep_Prepends ==
    /\ cpc = "running"
    /\ Len(results) < Len(emails)
    /\ \E outcome \in BackendOutcomes :
         LET i == Len(results)
             r == classify_single_email(emails[i + 1], outcome)
         IN
         /\ calls' = Append(calls, Call(i, emails[i + 1], Len(results), outcome))
         /\ results' = <<r.result>> \o results
         /\ progress' = IF progress_callback
                         THEN Append(progress, Progress(i + 1, Len(emails), Len(results')))
                         ELSE progress
         /\ cpc' = cpc
    /\ UNCHANGED <<emails, progress_callback>>
    /\ UNCHANGED <<parseVars, configVars, lastEdit, storeVars, opVars, cliVars>>

\* a loop that asks the backend a second time when its call raised
ClassifyIteration_Retries(outcomes) ==
    /\ cpc = "running"
    /\ Len(results) < Len(emails)
    /\ \E outcome \in outcomes, second \in outcomes :
         LET i == Len(results)
             used == IF outcome.raises THEN second ELSE outcome
             r == classify_single_email(emails[i + 1], used)
         IN
         /\ calls' = IF outcome.raises
                      THEN calls \o <<Call(i, emails[i + 1], Len(results), outcome),
                                       Call(i, emails[i + 1], Len(results), second)>>
                      ELSE Append(calls, Call(i, emails[i + 1], Len(results), outcome))
         /\ IF r.raised
            THEN cpc' = "raised" /\ UNCHANGED <<results, progress>>
            ELSE /\ results' = Append(results, r.result)
                 /\ progress' = IF progress_callback
                                 THEN Append(progress,
                                             Progress(i + 1, Len(emails), Len(results')))
                                 ELSE progress
                 /\ cpc' = cpc
    /\ UNCHANGED <<emails, progress_callback>>

\* a loop that reports progress only for the emails whose inference call
\* did not raise
ClassifyIteration_QuietOnFailure(outcomes) ==
    /\ cpc = "running"
    /\ Len(results) < Len(emails)
    /\ \E outcome \in outcomes :
         LET i == Len(results)
             r == classify_single_email(emails[i + 1], outcome)
         IN
         /\ calls' = Append(calls, Call(i, emails[i + 1], Len(results), outcome))
         /\ IF r.raised
            THEN cpc' = "raised" /\ UNCHANGED <<results, progress>>
            ELSE /\ results' = Append(results, r.result)
                 /\ progress' = IF progress_callback /\ ~outcome.raises
                                 THEN Append(progress,
                                             Progress(i + 1, Len(emails), Len(results')))
                                 ELSE progress
                 /\ cpc' = cpc
    /\ UNCHANGED <<emails, progress_callback>>

\* lines 119-126: one iteration, the backend doing one of outcomes
ClassifyIteration(outcomes) ==
    /\ cpc = "running"
    /\ Len(results) < Len(emails)
    /\ \E outcome \in outcomes :
         LET i == Len(results)
             r == classify_single_email(emails[i + 1], outcome)
         IN
         /\ calls' = Append(calls, Call(i, emails[i + 1], Len(results), outcome))
         /\ IF r.raised
            THEN cpc' = "raised" /\ UNCHANGED <<results, progress>>
            ELSE /\ results' = Append(results, r.result)
                 /\ progress' = IF progress_callback
                                 THEN Append(progress,
                                             Progress(i + 1, Len(emails), Len(results')))
                                 ELSE progress
                 /\ cpc' = cpc
    /\ UNCHANGED <<emails, progress_callback>>

ClassifyStep ==
    /\ pc = "off"
    /\ ClassifyIteration(BackendOutcomes)
    /\ UNCHANGED <<parseVars, configVars, lastEdit, storeVars, opVars, cliVars>>

ClassifyReturn ==
    /\ cpc = "running"
    /\ Len(results) = Len(emails)
    /\ cpc' = "returned"
    /\ UNCHANGED <<emails, results, calls, progress, progress_callback>>
    /\ UNCHANGED <<parseVars, configVars, lastEdit, storeVars, opVars, cliVars>>

InitClassify ==
    /\ ParseIdle
    /\ StoreIdle
    /\ OpIdle
    /\ CliIdle
    /\ ConfigIdle
    /\ emails \in SeqsUpTo(EmailPool, MaxEmails)
    /\ results = <<>>
    /\ calls = <<>>
    /\ progress = <<>>
    /\ progress_callback \in BOOLEAN
    /\ cpc = "running"

NextClassify ==
    \/ ClassifyStep
    \/ ClassifyReturn

SpecClassify == InitClassify /\ [][NextClassify]_vars

\* the reply cannot be read: it is no dict, or its message is no dict, or its
\* content is no string
ReadFails(o) ==
    /\ ~o.raises
    /\ \/ ~o.reply.isdict
       \/ /\ "message" \in DOMAIN o.reply.d
          /\ \/ ~o.reply.d.message.isdict
             \/ /\ "content" \in DOMAIN o.reply.d.message.d
                /\ ~o.reply.d.message.d.content.isstr

\* the reply is read and parse_classification_response raises on its content
ParseFails(o) ==
    /\ ~o.raises
    /\ ~ReadFails(o)
    /\ "message" \in DOMAIN o.reply.d
    /\ "content" \in DOMAIN o.reply.d.message.d
    /\ parse_classification_response(o.reply.d.message.d.content.s).raised

\* C2: classify_single_email never raises and always returns a result for the
\* email given: its email_id is the email's id, its category is a Category
\* and skip is false; when the inference call raised, or reading or parsing
\* the reply raised, the category is FYI and the reason starts with
\* "Classification failed: ".
C2_ClassifySingleFailsOpen ==
    /\ cpc # "raised"
    /\ Len(results) = Len(calls)
    /\ \A i \in 1..Len(results) :
         /\ results[i].email_id = emails[i].id
         /\ results[i].category \in Categories
         /\ results[i].skip = FALSE
         /\ (calls[i].raises \/ ReadFails(calls[i]) \/ ParseFails(calls[i])) =>
                /\ results[i].category = "FYI"
                /\ results[i].reason.prefix = "Classification failed: "

C2_Witness ==
    /\ Len(results) = 2
    /\ calls[1].raises
    /\ ParseFails(calls[2])
    /\ results[2].reason.prefix = "Classification failed: "

\* C3: classify_emails on N emails returns N results in input order,
\* results[i].email_id = emails[i].id (so distinct input ids give distinct
\* result ids); when every inference call raised, every category is FYI.
C3_ClassifyEmailsOneResultEach ==
    cpc = "returned" =>
        /\ Len(results) = Len(emails)
        /\ \A i \in 1..Len(emails) : results[i].email_id = emails[i].id
        /\ (\A i, j \in 1..Len(emails) : i # j => emails[i].id # emails[j].id)
              => (\A i, j \in 1..Len(results) :
                    i # j => results[i].email_id # results[j].email_id)
        /\ (\A i \in 1..Len(calls) : calls[i].raises)
              => (\A i \in 1..Len(results) : results[i].category = "FYI")

C3_Witness ==
    /\ cpc = "returned"
    /\ Len(emails) = 2
    /\ emails[1].id # emails[2].id
    /\ \A i \in 1..Len(calls) : calls[i].raises

(***************************************************************************)
(* pending.py: the pending file.  It is absent, or holds text that is not  *)
(* JSON, or holds a JSON value (json.dump writes one, json.load reads it). *)
(***************************************************************************)
TextFile == [kind |-> "text"]
JsonFile(v) == [kind |-> "json", val |-> v]

pending_exists(file) == file.kind # "absent"

\* datetime.isoformat and datetime.fromisoformat, on the clock's readings
IsoFormat(n) == "2026-02-03T10:00:0" \o ToString(n)
IsIso(str) == \E n \in 0..(MaxSaves + 1) : IsoFormat(n) = str
FromIsoFormat(str) == CHOOSE n \in 0..(MaxSaves + 1) : IsoFormat(n) = str

\* email_map = {e.id: e for e in emails}: the last email of an id wins
InEmailMap(ems, id) == \E i \in 1..Len(ems) : ems[i].id = id
EmailMapGet(ems, id) ==
    ems[CHOOSE i \in 1..Len(ems) :
            ems[i].id = id /\ \A j \in (i + 1)..Len(ems) : ems[j].id # id]

\* a projection that loses the operator's skip mark
PendingDict_DropsSkip(account_name, result, email) ==
    [account |-> account_name,
     email_id |-> Get(result, "email_id", ""),
     category |-> Get(result, "category", "FYI"),
     skip |-> FALSE,
     subject |-> email.subject,
     sender |-> email.sender]

\* lines 34-45: the projection of one result and its email
PendingDict(account_name, result, email) ==
    [account |-> account_name,
     email_id |-> Get(result, "email_id", ""),
     category |-> Get(result, "category", "FYI"),
     skip |-> Get(result, "skip", FALSE),
     subject |-> email.subject,
     sender |-> email.sender]

\* json.dump of one projected entry
DumpEntry(d) ==
    JObj([account |-> JStr(d.account),
          email_id |-> JStr(d.email_id),
          category |-> JStr(d.category),
          skip |-> JBool(d.skip),
          subject |-> JStr(d.subject),
          sender |-> JStr(d.sender)])

RECURSIVE PendingEmails(_, _, _)
PendingEmails(account_name, ems, rs) ==
    IF rs = <<>> THEN <<>>
    ELSE LET result == Head(rs)
             email_id == Get(result, "email_id", "")
             rest == PendingEmails(account_name, ems, Tail(rs))
         IN
         IF InEmailMap(ems, email_id)
         THEN <<PendingDict(account_name, result, EmailMapGet(ems, email_id))>> \o rest
         ELSE rest

\* a save that keeps the entries of the snapshot it finds
save_pending_Appends(old, account_name, ems, rs, now) ==
    LET pending_emails == PendingEmails(account_name, ems, rs)
        kept == IF old.kind = "json" /\ old.val.k = "obj"
                   /\ "results" \in DOMAIN old.val.fields
                   /\ old.val.fields.results.k = "list"
                THEN old.val.fields.results.items
                ELSE <<>>
    IN
    JsonFile(JObj([created_at |-> JStr(IsoFormat(now)),
                   results |-> JList(kept \o [i \in 1..Len(pending_emails) |->
                                                DumpEntry(pending_emails[i])])]))

\* the file after save_pending(account_name, emails, results) at time now;
\* old is the file before it
save_pending(old, account_name, ems, rs, now) ==
    LET pending_emails == PendingEmails(account_name, ems, rs) IN
    JsonFile(JObj([created_at |-> JStr(IsoFormat(now)),
                   results |-> JList([i \in 1..Len(pending_emails) |->
                                        DumpEntry(pending_emails[i])])]))

(***************************************************************************)
(* pending.py: load_pending.                                               *)
(***************************************************************************)
LoadNone == [raised |-> FALSE, none |-> TRUE, called |-> TRUE]
LoadSome(p) == [raised |-> FALSE, none |-> FALSE, called |-> TRUE, pending |-> p]
LoadRaised(exc) == [raised |-> TRUE, none |-> FALSE, called |-> TRUE, exc |-> exc]

\* a decoded JSON value as the Python value json.load gives
FromJson(v) ==
    CASE v.k = "str" -> v.s
      [] v.k = "bool" -> v.b
      [] OTHER -> v

\* what "for item in v" does: a list gives its items, a string its
\* characters, an object its keys, anything else a TypeError
Iterable(v) == v.k \in {"list", "str", "obj"}
ItemsOf(v) ==
    CASE v.k = "list" -> v.items
      [] v.k = "str" -> IF v.s = "" THEN <<>> ELSE <<JStr("c")>>
      [] v.k = "obj" -> IF DOMAIN v.fields = {} THEN <<>> ELSE <<JStr("key")>>

\* a reading that takes the stored category as it is
PendingEmail_KeepsCategory(item) ==
    [account |-> FromJson(Get(item.fields, "account", JStr(""))),
     email_id |-> FromJson(Get(item.fields, "email_id", JStr(""))),
     category |-> FromJson(Get(item.fields, "category", JStr("FYI"))),
     skip |-> FromJson(Get(item.fields, "skip", JBool(FALSE))),
     subject |-> FromJson(Get(item.fields, "subject", JStr(""))),
     sender |-> FromJson(Get(item.fields, "sender", JStr("")))]

\* lines 70-83: one item of "results"
PendingEmail(item) ==
    LET c == Get(item.fields, "category", JStr("FYI")) IN
    [account |-> FromJson(Get(item.fields, "account", JStr(""))),
     email_id |-> FromJson(Get(item.fields, "email_id", JStr(""))),
     category |-> IF IsCategory(c) THEN c.s ELSE "FYI",
     skip |-> FromJson(Get(item.fields, "skip", JBool(FALSE))),
     subject |-> FromJson(Get(item.fields, "subject", JStr(""))),
     sender |-> FromJson(Get(item.fields, "sender", JStr("")))]

\* lines 85-89
CreatedAt(str, now) == IF IsIso(str) THEN FromIsoFormat(str) ELSE now

load_pending(file, now) ==
    IF ~pending_exists(file) THEN LoadNone
    ELSE IF file.kind = "text" THEN LoadNone      \* json.JSONDecodeError
    ELSE LET data == file.val IN
         IF data.k # "obj" THEN LoadRaised("AttributeError")
         ELSE LET rs == Get(data.fields, "results", JList(<<>>))
                  created_at_str == Get(data.fields, "created_at", JStr(""))
              IN
              IF ~Iterable(rs) THEN LoadRaised("TypeError")
              ELSE LET items == ItemsOf(rs) IN
                   IF \E i \in 1..Len(items) : items[i].k # "obj"
                   THEN LoadRaised("AttributeError")
                   ELSE IF created_at_str.k # "str" THEN LoadRaised("TypeError")
                   ELSE LoadSome([created_at |-> CreatedAt(created_at_str.s, now),
                                  results |-> [i \in 1..Len(items) |->
                                                 PendingEmail(items[i])]])

(***************************************************************************)
(* pending.py: delete_pending.                                             *)
(***************************************************************************)
\* an unlink without the exists() test
delete_pending_NoExistsTest(file) ==
    IF pending_exists(file)
    THEN [raised |-> FALSE, file |-> NoFile]
    ELSE [raised |-> TRUE, file |-> file]

delete_pending(file) ==
    IF pending_exists(file)
    THEN [raised |-> FALSE, file |-> NoFile]
    ELSE [raised |-> FALSE, file |-> file]

(***************************************************************************)
(* The pending store on its own: any sequence of save_pending,             *)
(* load_pending and delete_pending calls, from any content of the file.    *)
(***************************************************************************)
AccountNames == {"personal", "work"}

StoreResult(id, category, skip) ==
    [email_id |-> id, category |-> category, reason |-> Reason("", "test"), skip |-> skip]

\* the results given to save_pending: "m9" is the id of no email
StoreResults ==
    {StoreResult("m1", "NEEDS_REPLY", TRUE),
     StoreResult("m2", "ARCHIVE", FALSE),
     StoreResult("m9", "IGNORE", FALSE)}

\* the emails given to save_pending: none, one, or two in another order than
\* the results
StoreEmailLists == {<<>>, <<Mail1>>, <<Mail2, Mail1>>}
StoreResultLists == SeqsUpTo(StoreResults, MaxResults)

SavedEntry(account, id, category, skip) ==
    DumpEntry([account |-> account, email_id |-> id, category |-> category,
               skip |-> skip, subject |-> "Test", sender |-> "test@test.com"])

Snapshot(created_at, items) == JsonFile(JObj([created_at |-> created_at, results |-> items]))

InitialFiles ==
    {NoFile,
     TextFile,
     JsonFile(JList(<<>>)),
     JsonFile(JNum("42")),
     JsonFile(JNull),
     JsonFile(JObj(<<>>)),
     JsonFile(JObj([created_at |-> JStr(IsoFormat(0))])),
     JsonFile(JObj([results |-> JList(<<SavedEntry("personal", "m1", "ARCHIVE", FALSE)>>)])),
     Snapshot(JStr(IsoFormat(0)), JList(<<>>)),
     Snapshot(JStr(IsoFormat(0)), JList(<<SavedEntry("personal", "m1", "NEEDS_REPLY", FALSE)>>)),
     Snapshot(JStr(IsoFormat(0)), JList(<<SavedEntry("work", "m2", "ARCHIVE", TRUE),
                                          SavedEntry("personal", "m1", "BOGUS", FALSE)>>)),
     Snapshot(JStr(IsoFormat(0)), JList(<<JObj([email_id |-> JStr("m1")])>>)),
     Snapshot(JStr(IsoFormat(0)), JList(<<JNum("1")>>)),
     Snapshot(JStr(IsoFormat(0)), JList(<<JStr("m1")>>)),
     Snapshot(JStr(IsoFormat(0)), JNum("5")),
     Snapshot(JStr(IsoFormat(0)), JNull),
     Snapshot(JStr(IsoFormat(0)), JStr("")),
     Snapshot(JStr("yesterday"), JList(<<SavedEntry("personal", "m1", "FYI", FALSE)>>)),
     Snapshot(JNum("5"), JList(<<SavedEntry("personal", "m1", "FYI", FALSE)>>)),
     Snapshot(JNull, JList(<<>>))}

InitStore ==
    /\ ParseIdle
    /\ ClassifyIdle
    /\ OpIdle
    /\ CliIdle
    /\ ConfigIdle
    /\ pendingFile \in InitialFiles
    /\ clock = 1
    /\ loaded = NotLoaded
    /\ lastSaved = NothingSaved
    /\ saves = 0

StoreSave ==
    /\ clock <= MaxSaves
    /\ \E account \in AccountNames, ems \in StoreEmailLists, rs \in StoreResultLists :
         /\ pendingFile' = save_pending(pendingFile, account, ems, rs, clock)
         /\ lastSaved' = [called |-> TRUE, account |-> account, emails |-> ems,
                          results |-> rs, at |-> clock]
    /\ clock' = clock + 1
    /\ saves' = IF saves < MaxSaves THEN saves + 1 ELSE saves
    /\ loaded' = NotLoaded
    /\ Did("save_pending", FALSE)
    /\ UNCHANGED <<parseVars, configVars, lastEdit, classifyVars, cliVars>>

StoreLoad ==
    /\ loaded' = load_pending(pendingFile, clock)
    /\ Did("load_pending", loaded'.raised)
    /\ UNCHANGED <<pendingFile, clock, lastSaved, saves>>
    /\ UNCHANGED <<parseVars, configVars, lastEdit, classifyVars, cliVars>>

StoreDelete ==
    /\ pendingFile' = delete_pending(pendingFile).file
    /\ Did("delete_pending", delete_pending(pendingFile).raised)
    /\ saves' = 0
    /\ loaded' = NotLoaded
    /\ UNCHANGED <<clock, lastSaved>>
    /\ UNCHANGED <<parseVars, configVars, lastEdit, classifyVars, cliVars>>

NextStore ==
    \/ StoreSave
    \/ StoreLoad
    \/ StoreDelete

SpecStore == InitStore /\ [][NextStore]_vars

(***************************************************************************)
(* Claims about the pending store, checked under SpecStore.                *)
(***************************************************************************)
Range(f) == {f[i] : i \in DOMAIN f}

\* the file holds a snapshot of the documented shape: an object with a string
\* created_at and a list of objects that have all six fields
EntryFields == {"account", "email_id", "category", "skip", "subject", "sender"}
ValidSnapshot(file) ==
    /\ file.kind = "json"
    /\ file.val.k = "obj"
    /\ {"created_at", "results"} \subseteq DOMAIN file.val.fields
    /\ file.val.fields.created_at.k = "str"
    /\ file.val.fields.results.k = "list"
    /\ \A item \in Range(file.val.fields.results.items) :
         item.k = "obj" /\ EntryFields \subseteq DOMAIN item.fields

\* C7: whenever the pending file exists and cannot be read as a valid
\* snapshot, load_pending returns None and does not raise.
C7_LoadCorruptedReturnsNone ==
    (lastOp = "load_pending" /\ pending_exists(pendingFile) /\ ~ValidSnapshot(pendingFile))
        => (~loaded.raised /\ loaded.none)

\* the results of the last save_pending call that have a matching email, in
\* result order
MatchedResults ==
    SelectSeq(lastSaved.results,
              LAMBDA r : \E e \in Range(lastSaved.emails) : e.id = r.email_id)

\* C8: save_pending followed by load_pending gives one entry per result that
\* has a matching email, in result order, each with the account saved, the
\* result's email_id, category and skip, and the matched email's subject and
\* sender.
C8_PendingRoundTrip ==
    (lastOp = "load_pending" /\ prevOp = "save_pending") =>
        /\ ~loaded.raised
        /\ ~loaded.none
        /\ Len(loaded.pending.results) = Len(MatchedResults)
        /\ \A i \in 1..Len(MatchedResults) :
             LET p == loaded.pending.results[i]
                 r == MatchedResults[i]
             IN
             /\ p.account = lastSaved.account
             /\ p.email_id = r.email_id
             /\ p.category = r.category
             /\ p.skip = r.skip
             /\ \E e \in Range(lastSaved.emails) :
                  e.id = r.email_id /\ p.subject = e.subject /\ p.sender = e.sender

C8_Witness ==
    /\ lastOp = "load_pending"
    /\ prevOp = "save_pending"
    /\ ~loaded.none
    /\ Len(lastSaved.results) = 2
    /\ Len(MatchedResults) = 1
    /\ Len(loaded.pending.results) = 1
    /\ loaded.pending.results[1].skip

\* C9: the store has one slot: whatever was in the file before, and however
\* many save_pending calls were made, load_pending returns the snapshot of the
\* most recent save only: its time, and as many entries as that save matched,
\* all of that save's account.
C9_SingleSlot ==
    (lastOp = "load_pending" /\ saves >= 1) =>
        /\ ~loaded.raised
        /\ ~loaded.none
        /\ loaded.pending.created_at = lastSaved.at
        /\ Len(loaded.pending.results) = Len(MatchedResults)
        /\ \A p \in Range(loaded.pending.results) :
             /\ p.account = lastSaved.account
             /\ \E r \in Range(lastSaved.results) : r.email_id = p.email_id

C9_Witness ==
    /\ lastOp = "load_pending"
    /\ saves = 2
    /\ ~loaded.none
    /\ Len(loaded.pending.results) = 1
    /\ Len(lastSaved.results) = 1

\* C10: delete_pending never raises, the file is absent after it, and a
\* second call changes nothing.
C10_DeleteIdempotent ==
    lastOp = "delete_pending" =>
        /\ ~lastRaised
        /\ ~pending_exists(pendingFile)
        /\ delete_pending(pendingFile) = [raised |-> FALSE, file |-> pendingFile]

C10_Witness ==
    /\ lastOp = "delete_pending"
    /\ prevOp = "delete_pending"
    /\ lastSaved.called

(***************************************************************************)
(* gmail.py: the action applier.  What the mailbox does in one run is an   *)
(* input: the accounts for which get_gmail_service raises, the categories  *)
(* for which ensure_label_exists gives a label id (it gives "" when the    *)
(* label can be neither found nor created, and config.labels may lack a    *)
(* category), and the emails whose modify request fails.                   *)
(***************************************************************************)
MailboxRun(raising, labelled, failing) ==
    [raising |-> raising, labelled |-> labelled, failing |-> failing]

\* a lookup that makes up an id for a label that could not be resolved
LabelId_MadeUp(category, run) == "Label_" \o category

\* lines 191-195 and 204: label_ids.get(category, "")
LabelId(category, run) == IF category \in run.labelled THEN "Label_" \o category ELSE ""

\* a policy that leaves IGNORE in the inbox
should_archive_ArchiveOnly(category) == category = "ARCHIVE"

\* line 209
should_archive(category) == category \in {"ARCHIVE", "IGNORE"}

\* the modify request made for one email, and whether it went through
apply_label_and_archive(email_id, label_id, archive, fails) ==
    [email_id |-> email_id,
     should_archive |-> archive,
     addLabelIds |-> <<label_id>>,
     removeLabelIds |-> IF archive THEN <<"INBOX">> ELSE <<>>,
     ok |-> ~fails]

\* a loop that does not look at the skip mark
RECURSIVE ApplyLoop_IgnoresSkip(_, _)
ApplyLoop_IgnoresSkip(rs, run) ==
    IF rs = <<>> THEN <<>>
    ELSE LET result == Head(rs)
             rest == ApplyLoop_IgnoresSkip(Tail(rs), run)
             category == Get(result, "category", "FYI")
             email_id == Get(result, "email_id", "")
             label_id == LabelId(category, run)
         IN
         IF label_id = "" \/ email_id = "" THEN rest
         ELSE <<apply_label_and_archive(email_id, label_id, should_archive(category),
                                        email_id \in run.failing)>> \o rest

\* a loop that ends at the first request that fails
RECURSIVE ApplyLoop_StopsAtFailure(_, _)
ApplyLoop_StopsAtFailure(rs, run) ==
    IF rs = <<>> THEN <<>>
    ELSE LET result == Head(rs)
             category == Get(result, "category", "FYI")
             email_id == Get(result, "email_id", "")
             label_id == LabelId(category, run)
         IN
         IF Get(result, "skip", FALSE) THEN ApplyLoop_StopsAtFailure(Tail(rs), run)
         ELSE IF label_id = "" \/ email_id = "" THEN ApplyLoop_StopsAtFailure(Tail(rs), run)
         ELSE IF email_id \in run.failing
         THEN <<apply_label_and_archive(email_id, label_id, should_archive(category), TRUE)>>
         ELSE <<apply_label_and_archive(email_id, label_id, should_archive(category), FALSE)>>
                 \o ApplyLoop_StopsAtFailure(Tail(rs), run)

\* lines 197-211: the requests made for the results, in order
RECURSIVE ApplyLoop(_, _)
ApplyLoop(rs, run) ==
    IF rs = <<>> THEN <<>>
    ELSE LET result == Head(rs)
             rest == ApplyLoop(Tail(rs), run)
             category == Get(result, "category", "FYI")
             email_id == Get(result, "email_id", "")
             label_id == LabelId(category, run)
         IN
         IF Get(result, "skip", FALSE) THEN rest
         ELSE IF label_id = "" \/ email_id = "" THEN rest
         ELSE <<apply_label_and_archive(email_id, label_id, should_archive(category),
                                        email_id \in run.failing)>> \o rest

Applied(raised, count, made) == [raised |-> raised, count |-> count, calls |-> made]

\* accts is config.accounts; get_gmail_service is called outside any try
apply_actions(accts, account, rs, run) ==
    IF account \notin accts THEN Applied(FALSE, 0, <<>>)
    ELSE IF account \in run.raising THEN Applied(TRUE, 0, <<>>)
    ELSE LET made == ApplyLoop(rs, run) IN
         Applied(FALSE, Len(SelectSeq(made, LAMBDA c : c.ok)), made)

(***************************************************************************)
(* pending.py: apply_pending.                                              *)
(***************************************************************************)
\* the keys of the dict "accounts", in insertion order
RECURSIVE AccountKeys(_)
AccountKeys(prs) ==
    IF prs = <<>> THEN <<>>
    ELSE LET rest == AccountKeys(SubSeq(prs, 1, Len(prs) - 1))
             a == prs[Len(prs)].account
         IN
         IF \E i \in 1..Len(rest) : rest[i] = a THEN rest ELSE Append(rest, a)

\* lines 109-116: the dicts grouped under one account
GroupOf(prs, a) ==
    LET mine == SelectSeq(prs, LAMBDA r : r.account = a) IN
    [i \in 1..Len(mine) |->
        [email_id |-> mine[i].email_id, category |-> mine[i].category,
         skip |-> mine[i].skip]]

\* lines 118-122: handed lists the apply_actions calls made; an exception of
\* apply_actions ends the loop
RECURSIVE ApplyGroups(_, _, _, _)
ApplyGroups(keys, prs, accts, run) ==
    IF keys = <<>>
    THEN [raised |-> FALSE, count |-> 0, calls |-> <<>>, handed |-> <<>>]
    ELSE LET a == Head(keys)
             group == GroupOf(prs, a)
         IN
         IF a \notin accts THEN ApplyGroups(Tail(keys), prs, accts, run)
         ELSE LET one == apply_actions(accts, a, group, run)
                  given == <<[account |-> a, results |-> group]>>
              IN
              IF one.raised
              THEN [raised |-> TRUE, count |-> 0, calls |-> one.calls, handed |-> given]
              ELSE LET rest == ApplyGroups(Tail(keys), prs, accts, run) IN
                   [raised |-> rest.raised,
                    count |-> one.count + rest.count,
                    calls |-> one.calls \o rest.calls,
                    handed |-> given \o rest.handed]

\* delete_pending is reached when no apply_actions call raised
apply_pending(pending, accts, file, run) ==
    LET a == ApplyGroups(AccountKeys(pending.results), pending.results, accts, run) IN
    [raised |-> a.raised,
     count |-> a.count,
     calls |-> a.calls,
     handed |-> a.handed,
     file |-> IF a.raised THEN file ELSE delete_pending(file).file]

(***************************************************************************)
(* cli.py: the menus.  An answer of a prompt is an input; None is the      *)
(* answer of a prompt that was interrupted.                                *)
(***************************************************************************)
None == "<None>"

\* the replies of the backend in a run of the menus
CliOutcomes ==
    {ChatSays(Obj2(Member("category", Str("NEEDS_REPLY")),
                   Member("reason", Str("Requires response")))),
     ChatSays(Obj1(Member("category", Str("UNKNOWN"))))}

\* a review that also offers a category that is none of the five
DrillTargets_OffersSpam == {"IGNORE", "SPAM"}

\* the categories the operator changes an email to in the review
DrillTargets == {"IGNORE"}

\* what fetch_emails returns: the first messages of the inbox, or none
Inbox == <<Mail1, Mail2>>
FetchLists == {SubSeq(Inbox, 1, n) : n \in 0..(IF MaxEmails < 2 THEN MaxEmails ELSE 2)}

\* the mailbox in one run: get_gmail_service raises for every account or for
\* none, the label of IGNORE is there or not, the request for one email
\* fails or none does
MailboxRuns ==
    {MailboxRun(x, y, z) :
        x \in {{}, AccountNames},
        y \in {Categories, Categories \ {"IGNORE"}},
        z \in {{}, {Mail2.id}}}

\* a nickname typed at the prompt, as a sequence of characters
NicknameInputs ==
    {<<>>,
     <<" ", "W", "o", "r", "k", " ">>,
     <<"p", "e", "r", "s", "o", "n", "a", "l">>}

\* str.strip, str.lower, str.replace(" ", "-") on such a sequence
RECURSIVE StripChars(_)
StripChars(cs) ==
    IF cs = <<>> THEN cs
    ELSE IF Head(cs) = " " THEN StripChars(Tail(cs))
    ELSE IF cs[Len(cs)] = " " THEN StripChars(SubSeq(cs, 1, Len(cs) - 1))
    ELSE cs

LowerChar(c) ==
    CASE c = "W" -> "w"
      [] c = "P" -> "p"
      [] OTHER -> c

RECURSIVE Join(_)
Join(cs) == IF cs = <<>> THEN "" ELSE Head(cs) \o Join(Tail(cs))

\* line 106
Nickname(typed) ==
    LET stripped == StripChars(typed)
        lowered == [i \in 1..Len(stripped) |-> LowerChar(stripped[i])]
    IN
    Join([i \in 1..Len(lowered) |-> IF lowered[i] = " " THEN "-" ELSE lowered[i]])

(***************************************************************************)
(* types.py and config.py: the configuration and its file.  A Config is a  *)
(* record, its labels and accounts are functions of strings (dicts).       *)
(***************************************************************************)
DefaultMaxEmails == 100

TokenData(access_token, scopes, expiry) ==
    [access_token |-> access_token,
     refresh_token |-> "refresh",
     token_uri |-> "https://oauth2.googleapis.com/token",
     client_id |-> "client",
     client_secret |-> "secret",
     scopes |-> scopes,
     expiry |-> expiry]

TokenKeys ==
    <<"access_token", "refresh_token", "token_uri", "client_id", "client_secret",
      "scopes", "expiry">>

AccountConfig(email, token) == [email |-> email, token |-> token]

Config(model, max_emails_per_run, labels, accts) ==
    [model |-> model, max_emails_per_run |-> max_emails_per_run, labels |-> labels,
     accounts |-> accts]

DEFAULT_LABELS ==
    [NEEDS_REPLY |-> "Auto/Needs Reply",
     NEEDS_ACTION |-> "Auto/Needs Action",
     FYI |-> "Auto/FYI",
     ARCHIVE |-> "Auto/Archive",
     IGNORE |-> "Auto/Ignore"]

get_default_config == Config("mistral:7b", DefaultMaxEmails, DEFAULT_LABELS, <<>>)

\* a JSON integer
JInt(n) == [k |-> "int", n |-> n]

\* json.dump of a Python value of a configuration: a text, an integer, a list
\* of texts
DumpText(t) == JStr(t)
DumpTexts(ts) == JList([i \in 1..Len(ts) |-> JStr(ts[i])])

\* json.load: the Python value of a JSON value
RECURSIVE PyValue(_)
PyValue(v) ==
    CASE v.k = "str" -> v.s
      [] v.k = "int" -> v.n
      [] v.k = "num" -> v.s
      [] v.k = "bool" -> v.b
      [] v.k = "list" -> [i \in 1..Len(v.items) |-> PyValue(v.items[i])]
      [] v.k = "obj" -> [key \in DOMAIN v.fields |-> PyValue(v.fields[key])]
      [] OTHER -> None

\* lines 66-69: "token": dict(account.token)
DumpToken(token) ==
    JObj([key \in DOMAIN token |->
            IF key = "scopes" THEN DumpTexts(token[key]) ELSE DumpText(token[key])])

\* lines 57-70
config_to_dict(c) ==
    JObj([model |-> DumpText(c.model),
          max_emails_per_run |-> JInt(c.max_emails_per_run),
          labels |-> JObj([key \in DOMAIN c.labels |-> DumpText(c.labels[key])]),
          accounts |-> JObj([name \in DOMAIN c.accounts |->
                               JObj([email |-> DumpText(c.accounts[name].email),
                                     token |-> DumpToken(c.accounts[name].token)])])])

ConfigOk(c) == [raised |-> FALSE, keyerror |-> FALSE, config |-> c]
ConfigKeyError == [raised |-> FALSE, keyerror |-> TRUE]
ConfigRaised(exc) == [raised |-> TRUE, keyerror |-> FALSE, exc |-> exc]

\* lines 76-88: what reading one account does: "ok", a KeyError, or an error
\* of another kind (the value subscripted is no dict)
AccountReads(account_data) ==
    IF account_data.k # "obj" THEN "TypeError"
    ELSE IF "token" \notin DOMAIN account_data.fields THEN "KeyError"
    ELSE LET token == account_data.fields["token"] IN
         IF token.k # "obj" THEN "TypeError"
         ELSE IF \E i \in 1..Len(TokenKeys) : TokenKeys[i] \notin DOMAIN token.fields
         THEN "KeyError"
         ELSE IF "email" \notin DOMAIN account_data.fields THEN "KeyError"
         ELSE "ok"

\* lines 77-89: the AccountConfig of one account that reads "ok"
ReadAccount(account_data) ==
    AccountConfig(PyValue(account_data.fields["email"]),
                  [key \in {TokenKeys[i] : i \in 1..Len(TokenKeys)} |->
                      PyValue(account_data.fields["token"].fields[key])])

\* lines 73-96; at most one account of a file is defective
dict_to_config(data) ==
    IF data.k # "obj" THEN ConfigRaised("AttributeError")
    ELSE LET accts == Get(data.fields, "accounts", JObj(<<>>)) IN
         IF accts.k # "obj" THEN ConfigRaised("AttributeError")
         ELSE IF \E name \in DOMAIN accts.fields : AccountReads(accts.fields[name]) = "TypeError"
         THEN ConfigRaised("TypeError")
         ELSE IF \E name \in DOMAIN accts.fields : AccountReads(accts.fields[name]) = "KeyError"
         THEN ConfigKeyError
         ELSE ConfigOk(Config(
                PyValue(Get(data.fields, "model", JStr("mistral:7b"))),
                PyValue(Get(data.fields, "max_emails_per_run", JInt(DefaultMaxEmails))),
                PyValue(Get(data.fields, "labels", config_to_dict(get_default_config).fields.labels)),
                [name \in DOMAIN accts.fields |-> ReadAccount(accts.fields[name])]))

\* lines 99-110
load_config(file) ==
    IF file.kind = "absent" THEN ConfigOk(get_default_config)
    ELSE IF file.kind = "text" THEN ConfigOk(get_default_config)     \* json.JSONDecodeError
    ELSE LET r == dict_to_config(file.val) IN
         IF r.keyerror THEN ConfigOk(get_default_config) ELSE r

\* a save that writes the accounts without their tokens
save_config_NoTokens(c) ==
    JsonFile(JObj([model |-> DumpText(c.model),
                   max_emails_per_run |-> JInt(c.max_emails_per_run),
                   labels |-> JObj([key \in DOMAIN c.labels |-> DumpText(c.labels[key])]),
                   accounts |-> JObj([name \in DOMAIN c.accounts |->
                                        JObj([email |-> DumpText(c.accounts[name].email)])])]))

\* lines 113-119: the file after save_config(c)
save_config(c) == JsonFile(config_to_dict(c))

(***************************************************************************)
(* cli.py: add_account and remove_account on a Config.                     *)
(***************************************************************************)
\* gmail.py, authenticate_account: an AccountConfig, or None
Authenticated(account) == [ok |-> TRUE, account |-> account]
NotAuthenticated == [ok |-> FALSE]

\* an add_account that stores the new account under a nickname already there
add_account_Overwrites(c, file, typed, account) ==
    LET nickname == Nickname(typed) IN
    IF typed = <<>>
    THEN [config |-> c, file |-> file, nickname |-> None, authenticated |-> FALSE]
    ELSE IF ~account.ok
    THEN [config |-> c, file |-> file, nickname |-> nickname, authenticated |-> TRUE]
    ELSE LET added == [c EXCEPT !.accounts = (nickname :> account.account) @@ c.accounts] IN
         [config |-> added, file |-> save_config(added), nickname |-> nickname,
          authenticated |-> TRUE]

\* lines 94-120: typed is what the operator typed (nothing when the prompt was
\* aborted), account what authenticate_account gives when it is called;
\* authenticated tells whether it was called
add_account(c, file, typed, account) ==
    LET nickname == Nickname(typed) IN
    IF typed = <<>>
    THEN [config |-> c, file |-> file, nickname |-> None, authenticated |-> FALSE]
    ELSE IF nickname \in DOMAIN c.accounts
    THEN [config |-> c, file |-> file, nickname |-> nickname, authenticated |-> FALSE]
    ELSE IF ~account.ok
    THEN [config |-> c, file |-> file, nickname |-> nickname, authenticated |-> TRUE]
    ELSE LET added == [c EXCEPT !.accounts = (nickname :> account.account) @@ c.accounts] IN
         [config |-> added, file |-> save_config(added), nickname |-> nickname,
          authenticated |-> TRUE]

\* del config.accounts[account_name]
Without(d, key) == [name \in DOMAIN d \ {key} |-> d[name]]

\* lines 123-153: account_name is the choice made (None for "Cancel" or an
\* aborted prompt), confirm the answer to the confirmation
remove_account(c, file, account_name, confirm) ==
    IF Cardinality(DOMAIN c.accounts) <= 1 THEN [config |-> c, file |-> file]
    ELSE IF account_name = None \/ account_name = "" THEN [config |-> c, file |-> file]
    ELSE IF ~confirm THEN [config |-> c, file |-> file]
    ELSE LET removed == [c EXCEPT !.accounts = Without(c.accounts, account_name)] IN
         [config |-> removed, file |-> save_config(removed)]

\* the accounts authenticate_account may give
Token1 == TokenData("access-1", <<>>, "2026-01-01T00:00:00Z")
Token2 == TokenData("access-2", <<"https://www.googleapis.com/auth/gmail.modify">>, "")
Account1 == AccountConfig("test@gmail.com", Token1)
Account2 == AccountConfig("second@gmail.com", Token2)

\* the configuration of run_cleaner's model: the defaults, and an account for
\* each name
CliConfig(names) ==
    Config("mistral:7b", DefaultMaxEmails, DEFAULT_LABELS, [name \in names |-> Account1])

(***************************************************************************)
(* classifier.py: generate_summaries.  Its output is a list of lines: a    *)
(* header for each important category that has emails, under it the        *)
(* bullets of the backend's summary or, when the summary call fails, one   *)
(* bullet per email; then the counts of ARCHIVE and IGNORE.                *)
(***************************************************************************)
\* a grouping that keeps a result of no known email, under a placeholder
RECURSIVE GroupEmails_KeepsUnknown(_, _, _)
GroupEmails_KeepsUnknown(ems, rs, cat) ==
    IF rs = <<>> THEN <<>>
    ELSE LET result == Head(rs)
             email_id == Get(result, "email_id", "")
             rest == GroupEmails_KeepsUnknown(ems, Tail(rs), cat)
         IN
         IF Get(result, "category", "FYI") # cat THEN rest
         ELSE IF InEmailMap(ems, email_id) THEN <<EmailMapGet(ems, email_id)>> \o rest
         ELSE <<EmailData(email_id, "unknown", "unknown")>> \o rest

\* lines 139-148: categories[cat], the emails of the results of cat, in the
\* order of the results; a result whose email_id is the id of no email adds
\* nothing
RECURSIVE GroupEmails(_, _, _)
GroupEmails(ems, rs, cat) ==
    IF rs = <<>> THEN <<>>
    ELSE LET result == Head(rs)
             email_id == Get(result, "email_id", "")
             rest == GroupEmails(ems, Tail(rs), cat)
         IN
         IF Get(result, "category", "FYI") = cat /\ InEmailMap(ems, email_id)
         THEN <<EmailMapGet(ems, email_id)>> \o rest
         ELSE rest

\* line 153 and line 186
important_cats == <<"NEEDS_REPLY", "NEEDS_ACTION", "FYI">>
count_cats == <<"ARCHIVE", "IGNORE">>

\* line 161: cat.replace("_", " ")
DisplayName(cat) ==
    CASE cat = "NEEDS_REPLY" -> "NEEDS REPLY"
      [] cat = "NEEDS_ACTION" -> "NEEDS ACTION"
      [] OTHER -> cat

\* a subject of more than 50 characters and its first 50
LongSubject == "Quarterly planning: agenda, budget and travel for the offsite in May"
LongSubjectCut == "Quarterly planning: agenda, budget and travel for t"

\* line 183: subject[:50]
First50(subject) == IF subject = LongSubject THEN LongSubjectCut ELSE subject

Mail3 == EmailData("m3", "pm@example.com", LongSubject)

\* a line of the backend's summary: the bullet marks and blanks it begins
\* with, and the text after them
SummaryLine(lead, body) == [lead |-> lead, body |-> body]

\* lines 173-180: the lines of summary.strip().split("\n"), each stripped, the
\* empty ones left out, the bullet marks replaced by one bullet
BulletLines(summary) ==
    LET kept == SelectSeq(summary, LAMBDA l : l.lead # "" \/ l.body # "")
    IN [i \in 1..Len(kept) |-> [kind |-> "bullet", text |-> kept[i].body]]

\* line 183: one bullet per email when the summary call failed
FallbackLines(cat_emails) ==
    [i \in 1..Len(cat_emails) |->
        [kind |-> "fallback", sender |-> cat_emails[i].sender,
         text |-> First50(cat_emails[i].subject)]]

\* lines 46-52: the emails listed in the prompt
build_summary_prompt(cat_emails) ==
    [i \in 1..Len(cat_emails) |->
        [sender |-> cat_emails[i].sender, subject |-> cat_emails[i].subject,
         snippet |-> cat_emails[i].snippet]]

\* a summary that leaves the section empty when the summary call failed
SummaryBody_NoFallback(cat_emails, outcome) ==
    IF outcome.raises THEN <<>>
    ELSE LET c == ReadContent(outcome.reply) IN
         IF c.raised \/ ~c.content.isstr THEN <<>>
         ELSE BulletLines(c.content.s)

\* lines 165-183: the lines under the header of one category; outcome is what
\* the backend does with the summary call
SummaryBody(cat_emails, outcome) ==
    IF outcome.raises THEN FallbackLines(cat_emails)
    ELSE LET c == ReadContent(outcome.reply) IN
         IF c.raised \/ ~c.content.isstr THEN FallbackLines(cat_emails)
         ELSE BulletLines(c.content.s)

\* lines 155-183, for one important category
ImportantLines(ems, rs, cat, outcome) ==
    LET cat_emails == GroupEmails(ems, rs, cat) IN
    IF cat_emails = <<>> THEN <<>>
    ELSE <<[kind |-> "header", cat |-> cat, name |-> DisplayName(cat),
            count |-> Len(cat_emails), plural |-> Len(cat_emails) # 1]>>
         \o SummaryBody(cat_emails, outcome)

\* a count followed by one line per email of the category
CountLines_Enumerates(ems, rs, cat) ==
    LET cat_emails == GroupEmails(ems, rs, cat) IN
    IF cat_emails = <<>> THEN <<>>
    ELSE <<[kind |-> "count", cat |-> cat, count |-> Len(cat_emails),
            plural |-> Len(cat_emails) # 1]>>
         \o FallbackLines(cat_emails)

\* lines 186-189, for ARCHIVE or IGNORE
CountLines(ems, rs, cat) ==
    LET cat_emails == GroupEmails(ems, rs, cat) IN
    IF cat_emails = <<>> THEN <<>>
    ELSE <<[kind |-> "count", cat |-> cat, count |-> Len(cat_emails),
            plural |-> Len(cat_emails) # 1]>>

\* lines 166-170: the summary calls made, one for each important category
\* that has emails, each with its prompt and what the backend did with it
SummaryCalls(ems, rs, answers) ==
    LET cats == SelectSeq(important_cats, LAMBDA cat : GroupEmails(ems, rs, cat) # <<>>)
    IN [i \in 1..Len(cats) |->
          [cat |-> cats[i],
           prompt |-> build_summary_prompt(GroupEmails(ems, rs, cats[i])),
           outcome |-> answers[cats[i]]]]

\* lines 132-191; answers[cat] is what the backend does with the summary call
\* for cat
generate_summaries(ems, rs, answers) ==
    [called |-> TRUE,
     raised |-> FALSE,
     emails |-> ems,
     results |-> rs,
     calls |-> SummaryCalls(ems, rs, answers),
     lines |-> ImportantLines(ems, rs, "NEEDS_REPLY", answers["NEEDS_REPLY"])
               \o ImportantLines(ems, rs, "NEEDS_ACTION", answers["NEEDS_ACTION"])
               \o ImportantLines(ems, rs, "FYI", answers["FYI"])
               \o CountLines(ems, rs, "ARCHIVE")
               \o CountLines(ems, rs, "IGNORE")]

\* what the backend may do with a summary call
SummaryTexts ==
    {<<SummaryLine("* ", "John asks about Thursday"), SummaryLine("", ""),
       SummaryLine("", "A newsletter")>>,
     <<>>}

SummaryOutcomes ==
    {ChatRaises("Connection error"), ChatReturns(PyNone)}
    \cup {ChatSays(t) : t \in SummaryTexts}

SummaryAnswers == [{"NEEDS_REPLY", "NEEDS_ACTION", "FYI"} -> SummaryOutcomes]

\* the backend as run_cleaner meets it: every summary call fails
CliSummaryAnswers ==
    {[cat \in {"NEEDS_REPLY", "NEEDS_ACTION", "FYI"} |-> ChatRaises("Connection error")]}

\* what is left in memory when control is back at the main menu, or lost
AtMenu ==
    /\ selected' = ""
    /\ summaries' = NoSummary
    /\ emails' = <<>>
    /\ results' = <<>>
    /\ calls' = <<>>
    /\ progress' = <<>>
    /\ progress_callback' = FALSE
    /\ cpc' = "idle"

\* lastSaved and attempted are about the snapshot in the file
FileIs(file) ==
    /\ pendingFile' = file
    /\ lastSaved' = IF pending_exists(file) THEN lastSaved ELSE NothingSaved

Init ==
    /\ ParseIdle
    /\ ClassifyIdle
    /\ StoreIdle
    /\ OpIdle
    /\ pc = "menu"
    /\ accounts = {"personal"}
    /\ selected = ""
    /\ lastApply = NoApply
    /\ attempted = FALSE
    /\ summaries = NoSummary
    /\ lastEdit = NoEdit
    /\ config = CliConfig({"personal"})
    /\ configFile = save_config(config)
    /\ lastConfigOp = NoConfigOp

(***************************************************************************)
(* load_pending, then apply_pending when it gave a snapshot: lines 244-248 *)
(* of run_cleaner and lines 432-436 of main_menu, which deletes the file   *)
(* once more.  An exception ends the process; the file stays as it is.     *)
(***************************************************************************)
ApplyRecord(path, reviewed, entries, handed, a, again) ==
    [path |-> path, reviewed |-> reviewed, entries |-> entries, handed |-> handed,
     calls |-> a.calls,
     count |-> a.count, raised |-> a.raised, again |-> again]

LoadAndApply(deletes_again) ==
    LET l == load_pending(pendingFile, clock) IN
    IF l.raised
    THEN /\ pc' = "crashed"
         /\ lastApply' = NoApply
         /\ UNCHANGED <<pendingFile, lastSaved, attempted>>
    ELSE IF l.none
    THEN /\ pc' = "menu"
         /\ lastApply' = NoApply
         /\ UNCHANGED <<pendingFile, lastSaved, attempted>>
    ELSE \E run \in MailboxRuns :
           LET a == apply_pending(l.pending, accounts, pendingFile, run)
               file == IF ~a.raised /\ deletes_again
                       THEN delete_pending(a.file).file
                       ELSE a.file
           IN
           /\ pc' = IF a.raised THEN "crashed" ELSE "applied"
           /\ lastApply' = ApplyRecord("apply_pending", lastSaved.results,
                                       l.pending.results, a.handed, a, attempted)
           /\ FileIs(file)
           /\ attempted' = pending_exists(file)

\* main_menu, choice "apply_pending": offered when the file exists
MenuApplyPending ==
    /\ pc = "menu"
    /\ pending_exists(pendingFile)
    /\ LoadAndApply(TRUE)
    /\ AtMenu
    /\ UNCHANGED <<parseVars, configVars, lastEdit, opVars, clock, loaded, saves, accounts>>

\* run_cleaner, the file exists, choice "apply"
RunApplyPending ==
    /\ pc = "menu"
    /\ pending_exists(pendingFile)
    /\ LoadAndApply(FALSE)
    /\ AtMenu
    /\ UNCHANGED <<parseVars, configVars, lastEdit, opVars, clock, loaded, saves, accounts>>

\* run_cleaner, the file exists, choice "cancel"
RunCancel ==
    /\ pc = "menu"
    /\ pending_exists(pendingFile)
    /\ lastApply' = NoApply
    /\ UNCHANGED <<parseVars, configVars, lastEdit, classifyVars, storeVars, opVars, pc, accounts, selected, summaries,
                   attempted>>

\* run_cleaner up to the call of classify_emails: the file is absent, or the
\* choice is "discard" or None; then the account, the fetch and the checks of
\* the backend (ready)
RunFetch ==
    /\ pc = "menu"
    /\ \E choice \in IF pending_exists(pendingFile) THEN {"discard", None} ELSE {None},
          account_name \in IF Cardinality(accounts) = 1 THEN accounts
                           ELSE accounts \cup {None},
          fetched \in FetchLists, ready \in BOOLEAN :
         LET file == IF choice = "discard"
                     THEN delete_pending(pendingFile).file
                     ELSE pendingFile
         IN
         /\ FileIs(file)
         /\ attempted' = (attempted /\ pending_exists(file))
         /\ IF accounts = {} \/ account_name = None \/ fetched = <<>> \/ ~ready
            THEN pc' = "menu" /\ AtMenu
            ELSE /\ pc' = "classify"
                 /\ selected' = account_name
                 /\ summaries' = NoSummary
                 /\ emails' = fetched
                 /\ results' = <<>>
                 /\ calls' = <<>>
                 /\ progress' = <<>>
                 /\ progress_callback' = FALSE
                 /\ cpc' = "running"
    /\ lastApply' = NoApply
    /\ UNCHANGED <<parseVars, configVars, lastEdit, opVars, clock, loaded, saves, accounts>>

\* classify_emails, called by run_cleaner: one iteration
ClassifyStepCli ==
    /\ pc = "classify"
    /\ ClassifyIteration(CliOutcomes)
    /\ UNCHANGED <<parseVars, configVars, lastEdit, storeVars, opVars, cliVars>>

\* lines 297-304: classify_emails returns, generate_summaries is called, the
\* summaries are printed, the review begins
RunSummaries ==
    /\ pc = "classify"
    /\ cpc = "running"
    /\ Len(results) = Len(emails)
    /\ pc' = "review"
    /\ calls' = <<>>
    /\ progress' = <<>>
    /\ progress_callback' = FALSE
    /\ cpc' = "idle"
    /\ \E answers \in CliSummaryAnswers :
         summaries' = generate_summaries(emails, results, answers)
    /\ UNCHANGED <<parseVars, configVars, lastEdit, storeVars, opVars, emails, results, accounts, selected,
                   lastApply, attempted>>

(***************************************************************************)
(* cli.py: drill_down_menu, one pass of its loop per step.                 *)
(***************************************************************************)
Min(a, b) == IF a < b THEN a ELSE b

\* lines 331-336: the positions of zip(emails, results) grouped under cat
Positions(ems, rs, cat) ==
    SelectSeq([i \in 1..Min(Len(ems), Len(rs)) |-> i],
              LAMBDA i : Get(rs[i], "category", "FYI") = cat)

DrillCategories(ems, rs) ==
    {Get(rs[i], "category", "FYI") : i \in 1..Min(Len(ems), Len(rs))}

\* a list that pairs the emails of cat with the first results
CatEmails_PairsFromTop(ems, rs, cat) ==
    LET at == Positions(ems, rs, cat) IN
    [k \in 1..Len(at) |-> [email |-> ems[at[k]], at |-> k]]

\* line 351: cat_emails, the pairs (email, result) of cat; the result of a
\* pair is the dict at position at of results, not a copy
CatEmails(ems, rs, cat) ==
    LET at == Positions(ems, rs, cat) IN
    [k \in 1..Len(at) |-> [email |-> ems[at[k]], at |-> at[k]]]

\* an edit that builds the result anew, not skipped, when its category changes
SetItem_ForgetsSkip(rs, i, key, value) ==
    [rs EXCEPT ![i] = [k \in DOMAIN @ \cup {key} |->
                         IF k = key THEN value
                         ELSE IF k = "skip" /\ key = "category" THEN FALSE
                         ELSE @[k]]]

\* result[key] = value on the dict at position i of results
SetItem(rs, i, key, value) ==
    [rs EXCEPT ![i] = [k \in DOMAIN @ \cup {key} |-> IF k = key THEN value ELSE @[k]]]

\* the edit made: the email chosen, the action chosen, the results before it
Edit(email, action, before) ==
    [made |-> TRUE, email_id |-> email.id, action |-> action, before |-> before]

DrillFrame ==
    /\ pc' = pc
    /\ UNCHANGED <<parseVars, configVars, storeVars, opVars, emails, calls, progress,
                   progress_callback, cpc, accounts, selected, summaries, lastApply, attempted>>

\* action "skip"
DrillSkip ==
    /\ pc = "review"
    /\ \E cat_choice \in DrillCategories(emails, results) :
         \E email_idx \in 1..Len(CatEmails(emails, results, cat_choice)) :
           LET pair == CatEmails(emails, results, cat_choice)[email_idx] IN
           /\ results' = SetItem(results, pair.at, "skip", TRUE)
           /\ lastEdit' = Edit(pair.email, "skip", results)
    /\ DrillFrame

\* action "Change to c", c one of the other categories
DrillChange ==
    /\ pc = "review"
    /\ \E cat_choice \in DrillCategories(emails, results) :
         \E email_idx \in 1..Len(CatEmails(emails, results, cat_choice)) :
           \E action \in DrillTargets \ {cat_choice} :
             LET pair == CatEmails(emails, results, cat_choice)[email_idx] IN
             /\ results' = SetItem(results, pair.at, "category", action)
             /\ lastEdit' = Edit(pair.email, action, results)
    /\ DrillFrame

\* "Back" or None at the list of emails or at the list of actions
DrillBack ==
    /\ pc = "review"
    /\ DrillCategories(emails, results) # {}
    /\ UNCHANGED <<results, lastEdit>>
    /\ DrillFrame

\* "Done - continue" or None at the list of categories
DrillDone ==
    /\ pc = "review"
    /\ pc' = "final"
    /\ lastEdit' = NoEdit
    /\ UNCHANGED <<parseVars, configVars, classifyVars, storeVars, opVars, accounts, selected, summaries,
                   lastApply, attempted>>

(***************************************************************************)
(* cli.py: run_cleaner, the final choice.                                  *)
(***************************************************************************)
FinalApply ==
    /\ pc = "final"
    /\ \E run \in MailboxRuns :
         LET a == apply_actions(accounts, selected, results, run)
             given == <<[account |-> selected, results |-> results]>>
         IN
         /\ pc' = IF a.raised THEN "crashed" ELSE "applied"
         /\ lastApply' = ApplyRecord("apply_actions", results, results, given, a, FALSE)
    /\ AtMenu
    /\ UNCHANGED <<parseVars, configVars, lastEdit, storeVars, opVars, accounts, attempted>>

FinalSave ==
    /\ pc = "final"
    /\ pendingFile' = save_pending(pendingFile, selected, emails, results, clock)
    /\ lastSaved' = [called |-> TRUE, account |-> selected, emails |-> emails,
                     results |-> results, at |-> clock]
    /\ attempted' = FALSE
    /\ pc' = "menu"
    /\ lastApply' = NoApply
    /\ AtMenu
    /\ UNCHANGED <<parseVars, configVars, lastEdit, opVars, clock, loaded, saves, accounts>>

\* "discard" or None
FinalDiscard ==
    /\ pc = "final"
    /\ pc' = "menu"
    /\ lastApply' = NoApply
    /\ AtMenu
    /\ UNCHANGED <<parseVars, configVars, lastEdit, storeVars, opVars, accounts, attempted>>

\* the count is printed and the handler returns: lines 247-248, 318, 435-436
ApplyReturn ==
    /\ pc = "applied"
    /\ pc' = "menu"
    /\ lastApply' = NoApply
    /\ UNCHANGED <<parseVars, configVars, lastEdit, classifyVars, storeVars, opVars, accounts, selected, summaries,
                   attempted>>

(***************************************************************************)
(* cli.py: main_menu, the other choices; the process ending and starting.  *)
(* config.accounts is written to the configuration file at every change,   *)
(* so a new process starts with the accounts the last one had.             *)
(***************************************************************************)
MenuFrame ==
    /\ lastApply' = NoApply
    /\ UNCHANGED <<parseVars, classifyVars, storeVars, opVars, selected, summaries, attempted,
                   lastEdit>>

\* add_account: authenticated is whether authenticate_account gave an account
MenuAdd ==
    /\ pc = "menu"
    /\ \E typed \in NicknameInputs, authenticated \in BOOLEAN :
         LET a == add_account(config, configFile, typed,
                              IF authenticated THEN Authenticated(Account1)
                              ELSE NotAuthenticated)
         IN
         /\ config' = a.config
         /\ configFile' = a.file
         /\ accounts' = DOMAIN a.config.accounts
    /\ pc' = pc
    /\ UNCHANGED lastConfigOp
    /\ MenuFrame

\* remove_account: offered when there is more than one account
MenuRemove ==
    /\ pc = "menu"
    /\ Cardinality(accounts) > 1
    /\ \E account_name \in accounts \cup {None}, confirm \in BOOLEAN :
         LET r == remove_account(config, configFile, account_name, confirm) IN
         /\ config' = r.config
         /\ configFile' = r.file
         /\ accounts' = DOMAIN r.config.accounts
    /\ pc' = pc
    /\ UNCHANGED lastConfigOp
    /\ MenuFrame

\* "exit" or None
MenuExit ==
    /\ pc = "menu"
    /\ pc' = "exited"
    /\ UNCHANGED <<accounts, configVars>>
    /\ MenuFrame

\* main: the program is run again and reads its configuration
Restart ==
    /\ pc \in {"exited", "crashed"}
    /\ ~load_config(configFile).raised
    /\ pc' = "menu"
    /\ config' = load_config(configFile).config
    /\ accounts' = DOMAIN config'.accounts
    /\ UNCHANGED <<configFile, lastConfigOp>>
    /\ MenuFrame

Next ==
    \/ MenuApplyPending
    \/ RunApplyPending
    \/ RunCancel
    \/ RunFetch
    \/ ClassifyStepCli
    \/ RunSummaries
    \/ DrillSkip
    \/ DrillChange
    \/ DrillBack
    \/ DrillDone
    \/ FinalApply
    \/ FinalSave
    \/ FinalDiscard
    \/ ApplyReturn
    \/ MenuAdd
    \/ MenuRemove
    \/ MenuExit
    \/ Restart

Spec == Init /\ [][Next]_vars

(***************************************************************************)
(* Claims about applying, checked under Spec.                              *)
(***************************************************************************)
\* C4: an entry with skip = true is never passed to apply_label_and_archive,
\* whatever its category: no request is made for a result that is marked
\* skip when apply_actions is called after the review, and none for a result
\* that was marked skip when it was saved, after load_pending and
\* apply_pending.
C4_SkippedNeverApplied ==
    lastApply.path \in {"apply_actions", "apply_pending"} =>
        \A r \in Range(lastApply.reviewed) :
           r.skip => \A c \in Range(lastApply.calls) : c.email_id # r.email_id

C4_Witness ==
    /\ lastApply.path = "apply_pending"
    /\ Len(lastApply.reviewed) = 2
    /\ Len(lastApply.entries) = 2
    /\ lastApply.reviewed[1].skip
    /\ lastApply.reviewed[1].category = "IGNORE"
    /\ lastApply.reviewed[2].category = "IGNORE"
    /\ Len(lastApply.calls) = 1
    /\ lastApply.calls[1].email_id = lastApply.reviewed[2].email_id
    /\ lastApply.calls[1].addLabelIds = <<"Label_IGNORE">>

\* C5: whenever apply_pending was invoked, the pending file does not exist
\* afterwards.
C5_ApplyPendingRemovesSnapshot ==
    lastApply.path = "apply_pending" => ~pending_exists(pendingFile)

\* C6: the entries of one saved snapshot are handed to the action applier at
\* most once: when apply_pending was invoked on a snapshot before and the
\* snapshot was not saved anew, a later apply_pending hands nothing to
\* apply_actions.
C6_SnapshotAppliedAtMostOnce ==
    (lastApply.path = "apply_pending" /\ lastApply.again) => lastApply.handed = <<>>

(***************************************************************************)
(* The action applier on its own: apply_pending and apply_actions called   *)
(* on any entries, with any accounts configured and any mailbox run.  The  *)
(* entries have distinct email ids, but for one that has none.             *)
(***************************************************************************)
ApplyEntry(account, email_id, category, skip) ==
    [account |-> account, email_id |-> email_id, category |-> category, skip |-> skip,
     subject |-> "Test", sender |-> "test@test.com"]

ApplyPool ==
    {ApplyEntry("personal", "m1", "NEEDS_REPLY", FALSE),
     ApplyEntry("work", "m2", "ARCHIVE", FALSE),
     ApplyEntry("personal", "m3", "IGNORE", FALSE),
     ApplyEntry("work", "m4", "FYI", FALSE),
     ApplyEntry("personal", "m5", "NEEDS_ACTION", FALSE),
     ApplyEntry("work", "m6", "IGNORE", TRUE),
     ApplyEntry("personal", "", "ARCHIVE", FALSE)}

ApplyLists ==
    {l \in SeqsUpTo(ApplyPool, MaxApply) :
        \A i, j \in 1..Len(l) : i # j => l[i] # l[j]}

ApplyRuns ==
    {MailboxRun(x, y, z) :
        x \in SUBSET AccountNames,
        y \in {Categories, Categories \ {"IGNORE"}, {"IGNORE"}},
        z \in {{}, {"m1"}, {"m2", "m3"}}}

\* the dicts apply_actions is given: lines 112-116 of pending.py
ResultDicts(prs) ==
    [i \in 1..Len(prs) |->
        [email_id |-> prs[i].email_id, category |-> prs[i].category, skip |-> prs[i].skip]]

CallRecord(path, entries, a, accts, run) ==
    [path |-> path, entries |-> entries, handed |-> a.handed, calls |-> a.calls,
     count |-> a.count, raised |-> a.raised, accts |-> accts, run |-> run]

InitApply ==
    /\ ParseIdle
    /\ ClassifyIdle
    /\ StoreIdle
    /\ OpIdle
    /\ CliIdle
    /\ ConfigIdle

CallApplyPending ==
    /\ pc = "off"
    /\ lastApply = NoApply
    /\ \E prs \in ApplyLists, accts \in SUBSET AccountNames, run \in ApplyRuns :
         LET file == Snapshot(JStr(IsoFormat(0)),
                              JList([i \in 1..Len(prs) |-> DumpEntry(prs[i])]))
             a == apply_pending([created_at |-> 0, results |-> prs], accts, file, run)
         IN
         /\ lastApply' = CallRecord("apply_pending", prs, a, accts, run)
         /\ pendingFile' = a.file
    /\ UNCHANGED <<parseVars, configVars, lastEdit, classifyVars, opVars, clock, loaded, lastSaved, saves, pc,
                   accounts, selected, summaries, attempted>>

CallApplyActions ==
    /\ pc = "off"
    /\ lastApply = NoApply
    /\ \E prs \in ApplyLists, account \in AccountNames, accts \in SUBSET AccountNames,
          run \in ApplyRuns :
         LET rs == ResultDicts(prs)
             a == apply_actions(accts, account, rs, run)
             given == <<[account |-> account, results |-> rs]>>
         IN
         lastApply' = CallRecord("apply_actions", rs, a @@ [handed |-> given], accts, run)
                         @@ [account |-> account]
    /\ UNCHANGED <<parseVars, configVars, lastEdit, classifyVars, storeVars, opVars, pc, accounts, selected, summaries,
                   attempted>>

NextApply ==
    \/ CallApplyPending
    \/ CallApplyActions

SpecApply == InitApply /\ [][NextApply]_vars

(***************************************************************************)
(* Claims about the action applier, checked under SpecApply.               *)
(***************************************************************************)
\* the entry is one that apply_actions makes a request for, once it has the
\* service of the entry's account
Deliverable(e, run) ==
    ~e.skip /\ e.email_id # "" /\ e.category \in run.labelled

HasAbsent(entries, accts) == \E e \in Range(entries) : e.account \notin accts

\* C11: apply_pending on entries of which some have an account that is not
\* configured does not raise, hands no such entry to apply_actions and makes
\* no request for it, counts only requests that succeeded, and still makes the
\* request for every deliverable entry of a configured account.
C11_AbsentAccountsSkipped ==
    (lastApply.path = "apply_pending" /\ HasAbsent(lastApply.entries, lastApply.accts)) =>
        /\ ~lastApply.raised
        /\ \A h \in Range(lastApply.handed) : h.account \in lastApply.accts
        /\ \A c \in Range(lastApply.calls) :
             \E e \in Range(lastApply.entries) :
                e.email_id = c.email_id /\ e.account \in lastApply.accts
        /\ lastApply.count = Cardinality({c \in Range(lastApply.calls) : c.ok})
        /\ \A e \in Range(lastApply.entries) :
             (e.account \in lastApply.accts /\ Deliverable(e, lastApply.run)) =>
                \E c \in Range(lastApply.calls) : c.email_id = e.email_id

C11_Witness ==
    /\ lastApply.path = "apply_pending"
    /\ ~lastApply.raised
    /\ Len(lastApply.entries) = 2
    /\ lastApply.entries[1].account \notin lastApply.accts
    /\ Deliverable(lastApply.entries[1], lastApply.run)
    /\ lastApply.entries[2].account \in lastApply.accts
    /\ Len(lastApply.calls) = 1
    /\ lastApply.calls[1].email_id = lastApply.entries[2].email_id
    /\ lastApply.count = 1

\* the entry a request was made for
EntryOf(c) == CHOOSE e \in Range(lastApply.entries) : e.email_id = c.email_id

\* C12: every request is made with should_archive true when the entry's
\* category is ARCHIVE or IGNORE and false when it is NEEDS_REPLY,
\* NEEDS_ACTION or FYI, and removes the INBOX label exactly when should_archive
\* is true.
C12_ArchivePolicy ==
    lastApply.path \in {"apply_actions", "apply_pending"} =>
        \A c \in Range(lastApply.calls) :
           /\ EntryOf(c).category \in {"ARCHIVE", "IGNORE"} => c.should_archive
           /\ EntryOf(c).category \in {"NEEDS_REPLY", "NEEDS_ACTION", "FYI"} =>
                ~c.should_archive
           /\ c.should_archive => c.removeLabelIds = <<"INBOX">>
           /\ ~c.should_archive => c.removeLabelIds = <<>>
           /\ c.addLabelIds = <<"Label_" \o EntryOf(c).category>>

C12_Witness ==
    /\ lastApply.path = "apply_actions"
    /\ Len(lastApply.calls) = 2
    /\ EntryOf(lastApply.calls[1]).category = "IGNORE"
    /\ lastApply.calls[1].removeLabelIds = <<"INBOX">>
    /\ EntryOf(lastApply.calls[2]).category = "NEEDS_ACTION"
    /\ lastApply.calls[2].removeLabelIds = <<>>

\* the email ids of the entries of rs that p holds of, in order
IdsWhere(rs, p(_)) ==
    LET kept == SelectSeq(rs, p) IN [i \in 1..Len(kept) |-> kept[i].email_id]

CallIds == [i \in 1..Len(lastApply.calls) |-> lastApply.calls[i].email_id]

\* C13: when a request of apply_actions fails, apply_actions does not raise,
\* the requests made are those for the deliverable entries, all of them and in
\* order, and the count returned is the number of requests that succeeded.
C13_FailureDoesNotAbort ==
    (lastApply.path = "apply_actions" /\ \E c \in Range(lastApply.calls) : ~c.ok) =>
        /\ ~lastApply.raised
        /\ CallIds = IdsWhere(lastApply.entries, LAMBDA e : Deliverable(e, lastApply.run))
        /\ lastApply.count = Cardinality({i \in 1..Len(lastApply.calls) :
                                            lastApply.calls[i].ok})

C13_Witness ==
    /\ lastApply.path = "apply_actions"
    /\ Len(lastApply.calls) = 2
    /\ ~lastApply.calls[1].ok
    /\ lastApply.calls[2].ok
    /\ lastApply.count = 1

\* C14: when apply_actions has the service of its account, an entry whose
\* category has no label id gets no request and is not counted, apply_actions
\* does not raise, and the other deliverable entries get their requests.
C14_UnresolvedLabelSkipped ==
    (/\ lastApply.path = "apply_actions"
     /\ lastApply.account \in lastApply.accts \ lastApply.run.raising
     /\ \E e \in Range(lastApply.entries) : e.category \notin lastApply.run.labelled) =>
        /\ ~lastApply.raised
        /\ \A e \in Range(lastApply.entries) :
             e.category \notin lastApply.run.labelled =>
                \A c \in Range(lastApply.calls) : c.email_id # e.email_id
        /\ lastApply.count <= Cardinality({e \in Range(lastApply.entries) :
                                             e.category \in lastApply.run.labelled})
        /\ \A e \in Range(lastApply.entries) :
             Deliverable(e, lastApply.run) =>
                \E c \in Range(lastApply.calls) : c.email_id = e.email_id

C14_Witness ==
    /\ lastApply.path = "apply_actions"
    /\ Len(lastApply.entries) = 2
    /\ lastApply.entries[1].category \notin lastApply.run.labelled
    /\ ~lastApply.entries[1].skip
    /\ lastApply.entries[1].email_id # ""
    /\ Len(lastApply.calls) = 1
    /\ lastApply.calls[1].email_id = lastApply.entries[2].email_id
    /\ lastApply.count = 1

(***************************************************************************)
(* Claims about the parser, checked under SpecParse.                       *)
(***************************************************************************)
Parsed == lastOp = "parse_classification_response"

\* the reply without the white space around it
Trimmed == Strip(response)

HasOpen == \E i \in 1..Len(Trimmed) : Trimmed[i] = LBRACE
HasClose == \E i \in 1..Len(Trimmed) : Trimmed[i] = RBRACE
FirstOpen == CHOOSE i \in 1..Len(Trimmed) :
                Trimmed[i] = LBRACE /\ \A j \in 1..(i - 1) : Trimmed[j] # LBRACE
LastClose == CHOOSE i \in 1..Len(Trimmed) :
                Trimmed[i] = RBRACE /\ \A j \in (i + 1)..Len(Trimmed) : Trimmed[j] # RBRACE

\* the text that is to be decoded: from the first '{' to the last '}' when the
\* reply has a '{', the whole reply otherwise
ToDecode ==
    IF ~HasOpen THEN Trimmed
    ELSE IF FirstOpen <= LastClose THEN SubSeq(Trimmed, FirstOpen, LastClose)
    ELSE <<>>

DecodeFails == (HasOpen /\ ~HasClose) \/ JsonLoads(ToDecode).err
DecodesToObject == ~DecodeFails /\ JsonLoads(ToDecode).val.k = "obj"
DecodedFields == JsonLoads(ToDecode).val.fields
HasProse == Len(ToDecode) < Len(Trimmed)

\* the reason of the decoded object as a text, empty when there is none
DecodedReason ==
    IF "reason" \notin DOMAIN DecodedFields THEN ""
    ELSE IF DecodedFields["reason"].k = "str" THEN DecodedFields["reason"].s
    ELSE PyStr(DecodedFields["reason"])

\* C15: when the text from the first '{' to the last '}' of the reply decodes
\* to a JSON object whose category is one of the five values, the parser
\* returns that category and the text of the object's reason, with or
\* without prose around the object.
C15_ValidObjectParsed ==
    (/\ Parsed
     /\ DecodesToObject
     /\ "category" \in DOMAIN DecodedFields
     /\ DecodedFields["category"].k = "str"
     /\ DecodedFields["category"].s
            \in {"NEEDS_REPLY", "NEEDS_ACTION", "FYI", "ARCHIVE", "IGNORE"}) =>
        /\ ~parseOut.raised
        /\ parseOut.category = DecodedFields["category"].s
        /\ parseOut.reason = [prefix |-> "", text |-> DecodedReason]

C15_Witness ==
    /\ Parsed
    /\ DecodesToObject
    /\ HasProse
    /\ Trimmed[1] = WORD
    /\ Trimmed[Len(Trimmed)] = WORD
    /\ parseOut.category = "ARCHIVE"
    /\ parseOut.reason = [prefix |-> "", text |-> "Requires response"]

\* C16: when the reply decodes to a JSON object whose category value is not
\* one of the five values, the parser returns FYI with the reason
\* "Unknown category: " followed by that value.
C16_UnknownCategoryIsFyi ==
    (/\ Parsed
     /\ DecodesToObject
     /\ "category" \in DOMAIN DecodedFields
     /\ ~(/\ DecodedFields["category"].k = "str"
          /\ DecodedFields["category"].s
                \in {"NEEDS_REPLY", "NEEDS_ACTION", "FYI", "ARCHIVE", "IGNORE"})) =>
        /\ ~parseOut.raised
        /\ parseOut.category = "FYI"
        /\ parseOut.reason.prefix = "Unknown category: "
        /\ parseOut.reason.text =
             IF DecodedFields["category"].k = "str"
             THEN DecodedFields["category"].s
             ELSE PyStr(DecodedFields["category"])

C16_Witness ==
    /\ Parsed
    /\ DecodesToObject
    /\ "category" \in DOMAIN DecodedFields
    /\ DecodedFields["category"] = [k |-> "str", s |-> "UNKNOWN"]
    /\ parseOut.category = "FYI"
    /\ parseOut.reason = [prefix |-> "Unknown category: ", text |-> "UNKNOWN"]

\* C17: when decoding fails (malformed syntax, an empty text, a '{' with no
\* '}' after it), the parser returns FYI with the reason
\* "Failed to parse response: " followed by a non-empty error message.
C17_DecodeFailureIsFyi ==
    (Parsed /\ DecodeFails) =>
        /\ ~parseOut.raised
        /\ parseOut.category = "FYI"
        /\ parseOut.reason.prefix = "Failed to parse response: "
        /\ parseOut.reason.text # ""

C17_Witness ==
    /\ Parsed
    /\ HasOpen
    /\ ~HasClose
    /\ parseOut.category = "FYI"
    /\ parseOut.reason = [prefix |-> "Failed to parse response: ",
                          text |-> "substring not found"]

(***************************************************************************)
(* Claims about the loop of classify_emails, checked under SpecClassify.   *)
(***************************************************************************)
\* C18: classify_emails makes one inference call per email and no second
\* call after a failure, in input order: the k-th call is for the k-th
\* email and is made when exactly k - 1 results have been produced; when it
\* returns, there have been as many calls as emails.
C18_OneCallPerEmailInOrder ==
    /\ Len(calls) <= Len(emails)
    /\ \A k \in 1..Len(calls) :
         /\ calls[k].index = k - 1
         /\ calls[k].email_id = emails[k].id
         /\ calls[k].done = k - 1
    /\ cpc = "returned" => Len(calls) = Len(emails)

C18_Witness ==
    /\ cpc = "returned"
    /\ Len(emails) = 2
    /\ Len(calls) = 2
    /\ calls[1].raises
    /\ ~calls[2].raises
    /\ calls[2].email_id = emails[2].id

\* C19: when a progress callback is given, its k-th call has the arguments
\* (k, N) and is made when exactly k results have been produced, whether or
\* not the classification failed; when classify_emails returns there have
\* been N calls.
C19_ProgressCountsResults ==
    progress_callback =>
        /\ Len(progress) = Len(results)
        /\ \A k \in 1..Len(progress) :
             /\ progress[k].current = k
             /\ progress[k].total = Len(emails)
             /\ progress[k].produced = k
        /\ cpc = "returned" => Len(progress) = Len(emails)

C19_Witness ==
    /\ progress_callback
    /\ cpc = "returned"
    /\ Len(emails) = 2
    /\ calls[1].raises
    /\ results[1].category = "FYI"
    /\ progress = <<[current |-> 1, total |-> 2, produced |-> 1],
                    [current |-> 2, total |-> 2, produced |-> 2]>>

(***************************************************************************)
(* generate_summaries and save_pending, each called once on a list of      *)
(* emails and a list of results, some of them of no email of the list;     *)
(* as in run_cleaner, generate_summaries comes first when both are called. *)
(***************************************************************************)
\* "m9" is the id of no email
SummaryResults ==
    {StoreResult(id, cat, FALSE) : id \in {"m1", "m2", "m9"},
                                   cat \in {"NEEDS_REPLY", "FYI", "ARCHIVE"}}
    \cup {StoreResult("m3", "NEEDS_ACTION", FALSE), StoreResult("m9", "IGNORE", FALSE),
          StoreResult("m2", "IGNORE", FALSE)}

SummaryEmailLists == {<<>>, <<Mail1>>, <<Mail2, Mail1>>, <<Mail3, Mail1b>>}
SummaryResultLists == SeqsUpTo(SummaryResults, MaxResults)

InitSummaries ==
    /\ ParseIdle
    /\ ClassifyIdle
    /\ StoreIdle
    /\ OpIdle
    /\ CliIdle
    /\ ConfigIdle

CallGenerateSummaries ==
    /\ pc = "off"
    /\ lastOp = "start"
    /\ \E ems \in SummaryEmailLists, rs \in SummaryResultLists, answers \in SummaryAnswers :
         summaries' = generate_summaries(ems, rs, answers)
    /\ Did("generate_summaries", summaries'.raised)
    /\ UNCHANGED <<parseVars, configVars, lastEdit, classifyVars, storeVars, pc, accounts, selected, lastApply,
                   attempted>>

\* save_pending, on the emails and results that were summarised when
\* generate_summaries was called before it
CallSavePending ==
    /\ pc = "off"
    /\ ~lastSaved.called
    /\ \E account \in AccountNames, ems \in SummaryEmailLists, rs \in SummaryResultLists :
         /\ summaries.called => (ems = summaries.emails /\ rs = summaries.results)
         /\ pendingFile' = save_pending(pendingFile, account, ems, rs, clock)
         /\ lastSaved' = [called |-> TRUE, account |-> account, emails |-> ems,
                          results |-> rs, at |-> clock]
    /\ clock' = clock + 1
    /\ saves' = IF saves < MaxSaves THEN saves + 1 ELSE saves
    /\ loaded' = NotLoaded
    /\ Did("save_pending", FALSE)
    /\ UNCHANGED <<parseVars, configVars, lastEdit, classifyVars, cliVars>>

NextSummaries ==
    \/ CallGenerateSummaries
    \/ CallSavePending

SpecSummaries == InitSummaries /\ [][NextSummaries]_vars

\* the positions of the results of cat that are of an email of ems
MatchedAt(ems, rs, cat) ==
    {i \in 1..Len(rs) : rs[i].category = cat /\ \E j \in 1..Len(ems) : ems[j].id = rs[i].email_id}

HasUnmatched(ems, rs) ==
    \E i \in 1..Len(rs) : \A j \in 1..Len(ems) : ems[j].id # rs[i].email_id

LinesOf(kind, cat) ==
    {i \in 1..Len(summaries.lines) :
        summaries.lines[i].kind = kind /\ summaries.lines[i].cat = cat}

Fallbacks == {i \in 1..Len(summaries.lines) : summaries.lines[i].kind = "fallback"}

\* the entries written by the last save_pending call
Written == pendingFile.val.fields.results.items

\* C20: when some result is of no email of the list given, generate_summaries
\* does not raise, every count it prints for a category is the number of
\* results of that category that are of an email of the list (and a category
\* with no such result gets no line), every email named in a prompt or in a
\* fallback bullet is of the list; save_pending does not raise and writes one
\* entry per result that is of an email of the list, and none for the others.
C20_UnknownIdsDropped ==
    /\ (summaries.called /\ HasUnmatched(summaries.emails, summaries.results)) =>
          /\ ~summaries.raised
          /\ \A cat \in Categories :
               LET n == Cardinality(MatchedAt(summaries.emails, summaries.results, cat))
                   kind == IF cat \in {"ARCHIVE", "IGNORE"} THEN "count" ELSE "header"
               IN
               /\ Cardinality(LinesOf(kind, cat)) = IF n = 0 THEN 0 ELSE 1
               /\ \A i \in LinesOf(kind, cat) : summaries.lines[i].count = n
          /\ \A c \in Range(summaries.calls) :
               /\ Len(c.prompt) =
                    Cardinality(MatchedAt(summaries.emails, summaries.results, c.cat))
               /\ \A p \in Range(c.prompt) :
                    \E e \in Range(summaries.emails) :
                        e.sender = p.sender /\ e.subject = p.subject
          /\ \A i \in Fallbacks :
               \E e \in Range(summaries.emails) : e.sender = summaries.lines[i].sender
          /\ Cardinality(Fallbacks) <=
               Cardinality(UNION {MatchedAt(summaries.emails, summaries.results, cat) :
                                    cat \in Categories})
    /\ (/\ lastOp = "save_pending"
        /\ lastSaved.called
        /\ HasUnmatched(lastSaved.emails, lastSaved.results)) =>
          /\ ~lastRaised
          /\ ValidSnapshot(pendingFile)
          /\ Len(Written) =
               Cardinality(UNION {MatchedAt(lastSaved.emails, lastSaved.results, cat) :
                                    cat \in Categories})
          /\ \A item \in Range(Written) :
               \E e \in Range(lastSaved.emails) : JStr(e.id) = item.fields.email_id

\* generate_summaries and then save_pending with a result of a known email
\* and one of an unknown email in the same category, the summary call failing
C20_Witness ==
    /\ summaries.called
    /\ Len(summaries.results) = 2
    /\ summaries.results[1].email_id = "m9"
    /\ summaries.results[1].category = "NEEDS_REPLY"
    /\ summaries.results[2].email_id = "m1"
    /\ summaries.results[2].category = "NEEDS_REPLY"
    /\ Len(summaries.emails) = 2
    /\ Len(summaries.lines) = 2
    /\ summaries.lines[1].kind = "header"
    /\ summaries.lines[1].count = 1
    /\ summaries.lines[2].kind = "fallback"
    /\ lastOp = "save_pending"
    /\ lastSaved.results = summaries.results
    /\ Len(Written) = 1
    /\ Written[1].fields.email_id = JStr("m1")

\* the number of results of cat that are of an email given
Matched(cat) == Cardinality(MatchedAt(summaries.emails, summaries.results, cat))

\* the positions of the lines that are neither a header nor a count
PerEmailLines ==
    {i \in 1..Len(summaries.lines) : summaries.lines[i].kind \in {"bullet", "fallback"}}

\* the position of the header of cat, and the positions of the lines of its
\* section: those after it and before the next header or count
HeaderAt(cat) == CHOOSE i \in LinesOf("header", cat) : TRUE
SectionOf(cat) ==
    {i \in PerEmailLines :
        /\ i > HeaderAt(cat)
        /\ \A j \in (HeaderAt(cat) + 1)..i : j \in PerEmailLines}

\* C21: generate_summaries makes no summary call for ARCHIVE or IGNORE and
\* prints for each of the two that has emails one line with the category, the
\* number of its emails and the plural mark, ARCHIVE before IGNORE, with no
\* line per email after a count; it makes one summary call for each of
\* NEEDS_REPLY, NEEDS_ACTION and FYI that has emails, and none for the others.
C21_CountsOnlyForArchiveIgnore ==
    summaries.called =>
        /\ \A c \in Range(summaries.calls) : c.cat \in {"NEEDS_REPLY", "NEEDS_ACTION", "FYI"}
        /\ \A cat \in {"NEEDS_REPLY", "NEEDS_ACTION", "FYI"} :
             Cardinality({i \in 1..Len(summaries.calls) : summaries.calls[i].cat = cat})
                = IF Matched(cat) > 0 THEN 1 ELSE 0
        /\ \A cat \in {"ARCHIVE", "IGNORE"} :
             /\ Cardinality(LinesOf("count", cat)) = IF Matched(cat) > 0 THEN 1 ELSE 0
             /\ Cardinality(LinesOf("header", cat)) = 0
             /\ \A i \in LinesOf("count", cat) :
                  /\ summaries.lines[i].count = Matched(cat)
                  /\ summaries.lines[i].plural = (Matched(cat) # 1)
                  /\ \A j \in PerEmailLines : j < i
        /\ \A i \in LinesOf("count", "ARCHIVE"), j \in LinesOf("count", "IGNORE") : i < j

C21_Witness ==
    /\ summaries.called
    /\ Matched("ARCHIVE") = 1
    /\ Matched("IGNORE") = 1
    /\ summaries.calls = <<>>
    /\ Len(summaries.lines) = 2
    /\ summaries.lines[1] = [kind |-> "count", cat |-> "ARCHIVE", count |-> 1, plural |-> FALSE]
    /\ summaries.lines[2] = [kind |-> "count", cat |-> "IGNORE", count |-> 1, plural |-> FALSE]

\* the results of cat that are of an email given, in result order
GroupResults(cat) ==
    SelectSeq(summaries.results,
              LAMBDA r : r.category = cat /\ \E e \in Range(summaries.emails) : e.id = r.email_id)

Loaded == lastOp = "load_pending" /\ ~loaded.raised /\ ~loaded.none

\* the i-th item of "results" in the file that was read
StoredItem(i) == pendingFile.val.fields.results.items[i]

\* C23: every entry load_pending returns has one of the five categories: the
\* stored string when that is one of the five, FYI for any other stored value
\* and when no category is stored.
C23_LoadCoercesCategory ==
    Loaded =>
        \A i \in 1..Len(loaded.pending.results) :
            LET got == loaded.pending.results[i].category
                fields == StoredItem(i).fields
            IN
            /\ got \in {"NEEDS_REPLY", "NEEDS_ACTION", "FYI", "ARCHIVE", "IGNORE"}
            /\ IF /\ "category" \in DOMAIN fields
                  /\ fields["category"].k = "str"
                  /\ fields["category"].s
                        \in {"NEEDS_REPLY", "NEEDS_ACTION", "FYI", "ARCHIVE", "IGNORE"}
               THEN got = fields["category"].s
               ELSE got = "FYI"

C23_Witness ==
    /\ Loaded
    /\ Len(loaded.pending.results) = 2
    /\ StoredItem(1).fields["category"] = JStr("ARCHIVE")
    /\ loaded.pending.results[1].category = "ARCHIVE"
    /\ StoredItem(2).fields["category"] = JStr("BOGUS")
    /\ loaded.pending.results[2].category = "FYI"

(***************************************************************************)
(* save_config and load_config, called in any order on any file.           *)
(***************************************************************************)
CustomLabels == [DEFAULT_LABELS EXCEPT !["FYI"] = "Read Later"]

ConfigAccounts ==
    {<<>>,
     [personal |-> Account1],
     [work |-> Account2],
     [personal |-> Account1, work |-> Account2]}

\* the configurations handed to save_config
ConfigSet ==
    {Config(model, max_emails_per_run, labels, accts) :
        model \in {"mistral:7b", "llama2:7b"},
        max_emails_per_run \in {DefaultMaxEmails, DefaultMaxEmails \div 2},
        labels \in {DEFAULT_LABELS, CustomLabels, <<>>},
        accts \in ConfigAccounts}

\* an account of a file whose token lacks its expiry
NoExpiry ==
    JObj([email |-> JStr("test@gmail.com"),
          token |-> JObj([key \in DOMAIN Token1 \ {"expiry"} |-> JStr("x")])])

\* the files found at the first call: none, one that is no JSON, and JSON
\* values written by another hand
InitialConfigFiles ==
    {NoFile,
     TextFile,
     JsonFile(JObj(<<>>)),
     JsonFile(JList(<<>>)),
     JsonFile(JObj([model |-> JStr("phi3"), accounts |-> JObj(<<>>)])),
     JsonFile(JObj([accounts |-> JObj([personal |-> NoExpiry])])),
     JsonFile(JObj([accounts |-> JList(<<>>)])),
     JsonFile(JObj([accounts |-> JObj([personal |-> JStr("test@gmail.com")])]))}

InitConfig ==
    /\ ParseIdle
    /\ ClassifyIdle
    /\ StoreIdle
    /\ OpIdle
    /\ CliIdle
    /\ configFile \in InitialConfigFiles
    /\ config = NoConfig
    /\ lastConfigOp = NoConfigOp

ConfigFrame == UNCHANGED <<parseVars, classifyVars, storeVars, opVars, cliVars, lastEdit>>

\* save_config(c), of a configuration built in memory or of the one loaded
ConfigSave ==
    /\ pc = "off"
    /\ \E c \in ConfigSet \cup (IF config = NoConfig THEN {} ELSE {config}) :
         /\ configFile' = save_config(c)
         /\ lastConfigOp' = [op |-> "save", saved |-> c]
    /\ UNCHANGED config
    /\ ConfigFrame

\* load_config(); an exception it lets through ends the program, and the
\* configuration held is not replaced
ConfigLoad ==
    /\ pc = "off"
    /\ LET r == load_config(configFile) IN
       /\ config' = IF r.raised THEN config ELSE r.config
       /\ lastConfigOp' = [op |-> "load", raised |-> r.raised, file |-> configFile,
                           after_save |-> lastConfigOp.op = "save",
                           saved |-> IF lastConfigOp.op = "save" THEN lastConfigOp.saved
                                     ELSE NoConfig]
    /\ UNCHANGED configFile
    /\ ConfigFrame

NextConfig ==
    \/ ConfigSave
    \/ ConfigLoad

SpecConfig == InitConfig /\ [][NextConfig]_vars

\* the names of the accounts of a configuration
AccountNamesOf(c) == DOMAIN c.accounts

\* two configurations have the same accounts: names, emails and token fields
SameAccounts(c, d) ==
    /\ AccountNamesOf(c) = AccountNamesOf(d)
    /\ \A name \in AccountNamesOf(c) :
         /\ c.accounts[name].email = d.accounts[name].email
         /\ DOMAIN c.accounts[name].token = DOMAIN d.accounts[name].token
         /\ \A key \in DOMAIN c.accounts[name].token :
              c.accounts[name].token[key] = d.accounts[name].token[key]

LoadedAfterSave == lastConfigOp.op = "load" /\ lastConfigOp.after_save

(***************************************************************************)
(* C24: load_config() right after save_config(c) returns a configuration   *)
(* with the model, max_emails_per_run, labels and accounts (names, emails  *)
(* and token fields) of c; load_config() with no file returns the default  *)
(* configuration.                                                          *)
(***************************************************************************)
C24_ConfigRoundTrip ==
    /\ LoadedAfterSave =>
         /\ ~lastConfigOp.raised
         /\ config.model = lastConfigOp.saved.model
         /\ config.max_emails_per_run = lastConfigOp.saved.max_emails_per_run
         /\ config.labels = lastConfigOp.saved.labels
         /\ SameAccounts(config, lastConfigOp.saved)
    /\ (lastConfigOp.op = "load" /\ lastConfigOp.file = NoFile) =>
         /\ ~lastConfigOp.raised
         /\ config = get_default_config

\* a configuration with two accounts, a changed label and a changed model
\* came back from its file
C24_Witness ==
    /\ LoadedAfterSave
    /\ lastConfigOp.saved = Config("llama2:7b", DefaultMaxEmails \div 2, CustomLabels,
                                   [personal |-> Account1, work |-> Account2])
    /\ config.accounts["work"].token["scopes"] =
         <<"https://www.googleapis.com/auth/gmail.modify">>
    /\ config.labels["FYI"] = "Read Later"

(***************************************************************************)
(* The categories met along the pipeline.                                  *)
(***************************************************************************)
InFive(rs) == \A i \in 1..Len(rs) : Get(rs[i], "category", "FYI") \in Categories

\* the entries written in the pending file
StoredItems ==
    IF pendingFile.kind = "json" THEN pendingFile.val.fields.results.items ELSE <<>>

(***************************************************************************)
(* C25: every result has one of the five categories in every state of the  *)
(* pipeline: in the results classify_emails builds and the review edits,   *)
(* in what save_pending was given and wrote, in what load_pending          *)
(* returned, and in every list handed to apply_actions by run_cleaner or   *)
(* by apply_pending.                                                       *)
(***************************************************************************)
C25_CategoryClosure ==
    /\ InFive(results)
    /\ lastSaved.called => InFive(lastSaved.results)
    /\ \A i \in 1..Len(StoredItems) :
         IsCategory(StoredItems[i].fields.category)
    /\ lastApply.path \in {"apply_actions", "apply_pending"} =>
         /\ InFive(lastApply.entries)
         /\ \A h \in Range(lastApply.handed) : InFive(h.results)

\* a snapshot of an email the review moved to IGNORE and of one whose answer
\* named no category of the five was loaded and handed on
C25_Witness ==
    /\ lastApply.path = "apply_pending"
    /\ Len(lastApply.entries) = 2
    /\ lastApply.entries[1].category = "IGNORE"
    /\ lastApply.entries[2].category = "FYI"
    /\ lastApply.reviewed[2].reason = Reason("Unknown category: ", "UNKNOWN")
    /\ Len(lastApply.handed) = 1
    /\ Len(lastApply.handed[1].results) = 2

(***************************************************************************)
(* The review: what one edit of drill_down_menu does to the results.       *)
(***************************************************************************)
\* the positions of the results of the email chosen in the last edit
EditedAt == {i \in 1..Len(lastEdit.before) : lastEdit.before[i].email_id = lastEdit.email_id}

(***************************************************************************)
(* C26: an edit of drill_down_menu changes the category or the skip mark   *)
(* of the one result whose email_id is the id of the email chosen, and     *)
(* nothing else: the results are as many as before and in the same order,  *)
(* each keeps its email_id and its reason, and every other result is what  *)
(* it was.                                                                 *)
(***************************************************************************)
C26_EditTouchesOneResult ==
    lastEdit.made =>
        /\ Len(results) = Len(lastEdit.before)
        /\ Cardinality(EditedAt) = 1
        /\ \A i \in 1..Len(results) :
             /\ results[i].email_id = lastEdit.before[i].email_id
             /\ results[i].reason = lastEdit.before[i].reason
             /\ i \notin EditedAt => results[i] = lastEdit.before[i]
             /\ i \in EditedAt =>
                  IF lastEdit.action = "skip"
                  THEN results[i] = [lastEdit.before[i] EXCEPT !.skip = TRUE]
                  ELSE results[i] = [lastEdit.before[i] EXCEPT !.category = lastEdit.action]

\* the second email, alone in its category, was moved to IGNORE after the
\* first was marked skip
C26_Witness ==
    /\ pc = "review"
    /\ lastEdit.made
    /\ lastEdit.action = "IGNORE"
    /\ lastEdit.email_id = "m2"
    /\ Len(results) = 2
    /\ lastEdit.before[1].category = "NEEDS_REPLY"
    /\ lastEdit.before[1].skip
    /\ lastEdit.before[2].category = "FYI"
    /\ results[2].category = "IGNORE"
    /\ results[1] = lastEdit.before[1]

\* the requests made for the email of a result
CallsFor(r) == {i \in 1..Len(lastApply.calls) : lastApply.calls[i].email_id = r.email_id}

(***************************************************************************)
(* C27: the skip mark only ever goes from false to true during the review: *)
(* every result is unmarked when the review begins, and an edit, a change  *)
(* of category included, leaves marked what was marked.  For an email      *)
(* marked at the end of the review no request is made by the apply that    *)
(* follows, nor, its mark being saved and loaded with it, by the apply of  *)
(* the saved snapshot.                                                     *)
(***************************************************************************)
C27_SkipOnlyEverSet ==
    /\ (pc \in {"classify", "review"} /\ ~lastEdit.made) =>
         \A i \in 1..Len(results) : ~results[i].skip
    /\ lastEdit.made =>
         \A i \in 1..Len(results) : lastEdit.before[i].skip => results[i].skip
    /\ lastApply.path \in {"apply_actions", "apply_pending"} =>
         /\ Len(lastApply.entries) = Len(lastApply.reviewed)
         /\ \A i \in 1..Len(lastApply.reviewed) :
              /\ lastApply.entries[i].skip = lastApply.reviewed[i].skip
              /\ lastApply.reviewed[i].skip => CallsFor(lastApply.reviewed[i]) = {}

\* an email marked skip was then moved to IGNORE and is still marked
C27_Witness ==
    /\ pc = "review"
    /\ lastEdit.made
    /\ lastEdit.action = "IGNORE"
    /\ lastEdit.email_id = "m1"
    /\ lastEdit.before[1].skip
    /\ lastEdit.before[1].category = "NEEDS_REPLY"
    /\ results[1].category = "IGNORE"
    /\ results[1].skip

(***************************************************************************)
(* C28: run_cleaner fetches, classifies and reviews, and so can save a new *)
(* snapshot, only when no snapshot exists: none existed at entry, or the   *)
(* one that did was discarded.  On every other answer to the prompt about  *)
(* the pending results ("apply", "cancel", an aborted prompt) it returns   *)
(* without classifying, and the snapshot is not written over.              *)
(***************************************************************************)
C28_ClassifiesOnlyWithoutSnapshot ==
    pc \in {"classify", "review", "final"} => ~pending_exists(pendingFile)

(***************************************************************************)
(* add_account and remove_account, called in any order on a configuration  *)
(* with any accounts, none included, as at the first run.                  *)
(***************************************************************************)
\* the nicknames typed: nothing, names that differ in case and blanks only,
\* and one blank
AccountNicknames ==
    NicknameInputs \cup {<<"w", "o", "r", "k">>, <<" ">>}

AuthOutcomes == {NotAuthenticated, Authenticated(Account1), Authenticated(Account2)}

InitAccounts ==
    /\ ParseIdle
    /\ ClassifyIdle
    /\ StoreIdle
    /\ OpIdle
    /\ CliIdle
    /\ \E accts \in ConfigAccounts :
         config = Config("mistral:7b", DefaultMaxEmails, DEFAULT_LABELS, accts)
    /\ configFile = IF config = get_default_config THEN NoFile ELSE save_config(config)
    /\ lastConfigOp = NoConfigOp

\* add_account(config)
AddAccount ==
    /\ pc = "off"
    /\ \E typed \in AccountNicknames, account \in AuthOutcomes :
         LET a == add_account(config, configFile, typed, account) IN
         /\ config' = a.config
         /\ configFile' = a.file
         /\ lastConfigOp' = [op |-> "add", typed |-> typed, nickname |-> a.nickname,
                             existed |-> a.nickname \in DOMAIN config.accounts,
                             authenticated |-> a.authenticated, before |-> config]
    /\ ConfigFrame

\* remove_account(config): the choice is one of the accounts or None
RemoveAccount ==
    /\ pc = "off"
    /\ \E account_name \in DOMAIN config.accounts \cup {None}, confirm \in BOOLEAN :
         LET r == remove_account(config, configFile, account_name, confirm) IN
         /\ config' = r.config
         /\ configFile' = r.file
         /\ lastConfigOp' = [op |-> "remove", account_name |-> account_name,
                             confirm |-> confirm, before |-> config]
    /\ ConfigFrame

NextAccounts ==
    \/ AddAccount
    \/ RemoveAccount

SpecAccounts == InitAccounts /\ [][NextAccounts]_vars

(***************************************************************************)
(* C29: a configuration with at least one account still has one after any  *)
(* add_account or remove_account; add_account with a nickname that is      *)
(* already an account, after normalisation, does not call                  *)
(* authenticate_account and leaves that account, and the configuration, as *)
(* they were.                                                              *)
(***************************************************************************)
C29_AccountsNeverEmptied ==
    lastConfigOp.op \in {"add", "remove"} =>
        /\ DOMAIN lastConfigOp.before.accounts # {} => DOMAIN config.accounts # {}
        /\ (lastConfigOp.op = "add" /\ lastConfigOp.existed) =>
             /\ ~lastConfigOp.authenticated
             /\ config = lastConfigOp.before
             /\ config.accounts[lastConfigOp.nickname] =
                  lastConfigOp.before.accounts[lastConfigOp.nickname]

\* " Work " was typed when "work" was the only account
C29_Witness ==
    /\ lastConfigOp.op = "add"
    /\ lastConfigOp.typed = <<" ", "W", "o", "r", "k", " ">>
    /\ lastConfigOp.nickname = "work"
    /\ lastConfigOp.existed
    /\ DOMAIN config.accounts = {"work"}
    /\ config.accounts["work"] = Account2
    /\ configFile = save_config(config)

=============================================================================
